---- MODULE Spec2Model ----
(***************************************************************************)
(* SpaceSim: the resonance drive (src/ship.py), the sound effect pool and  *)
(* the real-time audio callback (src/audio_system.py), and the frame loop  *)
(* that runs them (src/main.py).                                           *)
(*                                                                         *)
(* Python floats are modelled in fixed point:                              *)
(*   frequencies   in 1/FreqScale Hz (drive, target, width)                *)
(*   time          in milliseconds   (dt, simulation_time, power)          *)
(*   velocity      in 1/1000 unit/s, position in 1/1000 unit               *)
(*   a resonance level is the exact fraction n/d of the Lorentzian         *)
(*   audio samples at ModelSampleRate samples per second                   *)
(* Divisions truncate toward zero, square roots round down.                *)
(*                                                                         *)
(* Each of handle_input and update is one step of the simulation thread;   *)
(* the audio callback and the pitch thread are split at their reads and    *)
(* writes of the state they share with it.                                 *)
(*                                                                         *)
(* Not modelled, and writing none of the modelled fields: the texts spoken *)
(* other than those of save, load, autosave, landing and the hummed pitch, *)
(* HUD and rendering, volumes, pan and pitch of an effect, temples other   *)
(* than the Halls of Amenti, consciousness, ambient and heartbeat sounds.  *)
(* Not modelled although they write modelled fields:                       *)
(* astral and intention navigation, the ley line speed multiplier (applied *)
(* after the resonance loop), the motion of the celestial bodies,          *)
(* Atlantean crystals, the repairs of the integrity by pyramids, temples   *)
(* and brainwave states, and the one-shot sounds the simulation appends    *)
(* for approach, rotation and lock-on cues other than those listed with    *)
(* Play.                                                                   *)
(***************************************************************************)
EXTENDS Integers, Sequences, FiniteSets, TLC

\* ------------------------------------------------------------------ bounds
FreqScale == 6
ModelSampleRate == 500
MaxFrames == 2
MaxAudioFrames == 1
MaxCallbacks == 3
MaxPitches == 1
MaxNavFrames == 2

MaxRifts == 2

MaxRiftFrames == 2

MaxHarmonicFrames == 1

MaxTargetFrames == 2

MaxDissonanceFrames == 2

MaxSaveFrames == 2

MaxSpeechFrames == 2

MaxSpeechPitches == 2

MaxLandingFrames == 2

MaxLoadFrames == 2

MaxSingFrames == 2

MaxSingPitches == 3

MaxWidthFrames == 2

MaxArriveFrames == 3

MaxEntryFrames == 2

MaxLockFrames == 2

MaxToneFrames == 2

MaxCrystalFrames == 2

MaxUniverseFrames == 2

MaxMenuFrames == 2

MaxPresetFrames == 3

MaxSpendFrames == 3

MaxThreadFrames == 2

MaxThreadPitches == 1

\* ------------------------------------------------------- program constants
N_DIMENSIONS == 5
FPS == 60
MAX_VELOCITY_BASE == 10
RESONANCE_WIDTH_BASE == 10
FREQUENCY_MIN == 200
FREQUENCY_MAX == 800
INTERACTION_DISTANCE == 15
RIFT_ALIGNMENT_TOLERANCE == 20
ASCENSION_CRYSTAL_THRESHOLD == 21
TUNING_RATE == 100
TUNING_RATE_PLANET == 20
SLOWDOWN_DIST == 20
POWER_BUILD_TIME == 5
TUAOI_MODE_SWITCH_COOLDOWN == 2
HARMONIC_BONUS_DURATION == 2

Rat(p, q) == [p |-> p, q |-> q]

PHI == Rat(1618, 1000)

SPEECH_COOLDOWN == Rat(1, 2)

LANDING_THRESHOLD == Rat(8, 10)

\* constants.py 280-311: the difficulty of each exoplanet type
EXOPLANET_TYPES == <<
    [name |-> "hot_jupiter", difficulty |-> Rat(15, 10)],
    [name |-> "super_earth", difficulty |-> Rat(10, 10)],
    [name |-> "ocean_world", difficulty |-> Rat(8, 10)],
    [name |-> "rogue_planet", difficulty |-> Rat(20, 10)],
    [name |-> "ice_giant", difficulty |-> Rat(13, 10)] >>

ExoplanetNames == {EXOPLANET_TYPES[k].name : k \in 1..Len(EXOPLANET_TYPES)}

Difficulty(type) ==
    (CHOOSE e \in {EXOPLANET_TYPES[k] : k \in 1..Len(EXOPLANET_TYPES)} : e.name = type).difficulty

DISSONANCE_THRESHOLD == Rat(2, 10)

RIFT_ENTRY_RES_THRESHOLD == Rat(6, 10)

\* avg_res > 0.9 (ship.py 2062, 2110)
RIFT_RESONANCE == Rat(9, 10)

PERFECT_FIFTH_TOLERANCE == Rat(1, 2)

DISSONANCE_DURATION == 10

RIFT_FADE_TIME == 30

RIFT_CHARGE_TIME == 4

AUTOSAVE_INTERVAL == 300

LANDING_TIME == 3

NEBULA_DISSONANCE_RADIUS == 10
POWER_BUILD_THRESHOLD == Rat(8, 10)
PERFECT_RESONANCE_THRESHOLD == Rat(999, 1000)
CRYSTAL_COLLECTION_THRESHOLD == Rat(8, 10)
MERKABA_ACTIVATION_THRESHOLD == Rat(9, 10)
MERKABA_VELOCITY_BOOST == Rat(13, 10)
HARMONIC_TOLERANCE == Rat(2, 100)
HARMONIC_DETECTION_INTERVAL == Rat(5, 10)
SPEED_FACTORS == <<Rat(3, 10), Rat(6, 10), Rat(10, 10)>>

HARMONIC_RATIOS == <<
    [name |-> "octave", ratio |-> 2000],
    [name |-> "perfect_fifth", ratio |-> 1500],
    [name |-> "perfect_fourth", ratio |-> 1333],
    [name |-> "major_third", ratio |-> 1250],
    [name |-> "minor_third", ratio |-> 1200],
    [name |-> "major_sixth", ratio |-> 1667],
    [name |-> "minor_sixth", ratio |-> 1600],
    [name |-> "tritone", ratio |-> 1414],
    [name |-> "golden", ratio |-> 1618] >>

TUAOI_MODES == <<
    [name |-> "healing", rate |-> Rat(1, 100)],
    [name |-> "navigation", rate |-> Rat(15, 10)],
    [name |-> "communication", rate |-> Rat(20, 10)],
    [name |-> "power", rate |-> Rat(125, 100)],
    [name |-> "regeneration", rate |-> Rat(13, 10)],
    [name |-> "transcendence", rate |-> Rat(14, 10)] >>

TuaoiRate(mode) == (CHOOSE m \in {TUAOI_MODES[k] : k \in 1..Len(TUAOI_MODES)} : m.name = mode).rate

Dims == 0..(N_DIMENSIONS - 1)

\* ------------------------------------------------------------- arithmetic
Abs(x) == IF x < 0 THEN -x ELSE x

Sign(x) == IF x > 0 THEN 1 ELSE IF x < 0 THEN -1 ELSE 0

Min2(a, b) == IF a < b THEN a ELSE b

Max2(a, b) == IF a > b THEN a ELSE b

\* float division, truncated toward zero
TruncDiv(a, b) == Sign(a) * (Abs(a) \div b)

Scale(x, r) == TruncDiv(x * r.p, r.q)

Hz(f) == f * FreqScale

RECURSIVE SqrtSearch(_, _, _)
SqrtSearch(n, lo, hi) ==
    IF lo >= hi THEN lo
    ELSE LET mid == (lo + hi + 1) \div 2
         IN  IF mid * mid <= n THEN SqrtSearch(n, mid, hi) ELSE SqrtSearch(n, lo, mid - 1)

\* np.sqrt, rounded down; n < 2^30
ISqrt(n) == SqrtSearch(n, 0, Min2(n, 32767))

RECURSIVE SumOver(_, _)
SumOver(f, S) ==
    IF S = {} THEN 0
    ELSE LET x == CHOOSE y \in S : TRUE IN f[x] + SumOver(f, S \ {x})

\* f applied to the value of x: one statement after another
Then(x, f(_)) == CHOOSE y \in {f(v) : v \in {x}} : TRUE

Vec(a, b, c, d, e) == [i \in Dims |-> <<a, b, c, d, e>>[i + 1]]

ZeroVec == [i \in Dims |-> 0]

\* ---------------------------------------------------------- resonance curve
\* variant: the width enters the ratio unsquared
ResonanceLevelPlainWidth(delta_f, width) ==
    [n |-> width, d |-> width + delta_f * delta_f]

\* 1 / (1 + (delta_f / width)**2), as the exact fraction n/d
ResonanceLevel(delta_f, width) ==
    [n |-> width * width, d |-> width * width + delta_f * delta_f]

\* np.zeros: the levels before the first tick
ZeroLevel == [n |-> 0, d |-> 1]

\* level > r, for a threshold r = p/q: (q - p) * n > p * (d - n)
LevelAbove(level, r) ==
    LET dd == level.d - level.n
        nn == (r.q - r.p) * level.n
    IN  IF dd > nn THEN FALSE ELSE nn > r.p * dd

LevelMilli(level) == (level.n * 1000) \div level.d

\* np.mean(resonance_levels), in 1/1000
MeanLevelMilli(levels) == SumOver([i \in Dims |-> LevelMilli(levels[i])], Dims) \div N_DIMENSIONS

\* np.mean(resonance_levels) > r and < r, to 1/1000
MeanAbove(s, r) == MeanLevelMilli(s.resonance_levels) * r.q > 1000 * r.p

MeanBelow(s, r) == MeanLevelMilli(s.resonance_levels) * r.q < 1000 * r.p

\* the width the tick uses for dimension i (ship.py 1918-1920)
EffectiveWidth(width, mode, i) ==
    IF mode = "transcendence" /\ i >= 3 THEN Scale(width, TuaoiRate("transcendence")) ELSE width

\* boost = 1 + (resonance_power / POWER_BUILD_TIME) * PHI, in 1/1000
Boost(power) == 1000 + (power * PHI.p) \div (POWER_BUILD_TIME * 1000)

\* variant: the velocity without the sign of the detuning
LoopVelocityUnsigned(max_velocity, level, delta_f, power) ==
    (((max_velocity * level.n) \div level.d) * Boost(power)) \div 1000

\* max_velocity * level * sign(delta_f) * boost
LoopVelocity(max_velocity, level, delta_f, power) ==
    Sign(delta_f) * ((((max_velocity * level.n) \div level.d) * Boost(power)) \div 1000)

\* delta = resonance_width * sqrt(1 / target_res - 1), for target_res = a/b
InverseDelta(width, res) ==
    ISqrt((width * width * (res.q - res.p)) \div res.p)

\* min(0.999, a/b)
CapRes(a, b) == IF 1000 * a > 999 * b THEN Rat(999, 1000) ELSE Rat(a, b)

RECURSIVE PhiPow(_)
PhiPow(d) == IF d = 0 THEN 1000 ELSE Scale(PhiPow(d - 1), PHI)

Clamp(f) == Max2(Hz(FREQUENCY_MIN), Min2(Hz(FREQUENCY_MAX), f))

\* -------------------------------------------------------------- sound pool
\* duration of each precomputed waveform, ms (AudioSystem._generate_waveforms)
WaveMs(wf) ==
    CASE wf = "beep" -> 100
      [] wf = "click" -> 50
      [] wf = "chord" -> 7000
      [] wf = "lock_beep" -> 300
      [] wf = "dissonant" -> 1000
      [] wf = "ping" -> 200
      [] wf = "chime" -> 400
      [] wf = "rift_beep" -> 100
      [] wf = "rift_hum" -> 1000

\* len(effect.waveform)
WaveLen(wf) == (WaveMs(wf) * ModelSampleRate) \div 1000

\* SoundEffect.__init__: position 0; total and plays count the frames and
\* the callbacks the mixing loop has spent on the effect, last is the frame
\* count of the latest one (history)
SoundEffect(wf, loop) ==
    [waveform |-> wf, position |-> 0, loop |-> loop, total |-> 0, plays |-> 0, last |-> 0]

\* the star, planet and nebula lists of one call of generate_complete_universe
\* (main.py 40, 171), named by the run of the program and the number of the
\* call; n = 0 is the empty list
Universe(session, n) == [session |-> session, n |-> n]

FirstUniverse == Universe("this", 1)

\* AudioSystem.__init__: an empty pool; fx holds every SoundEffect object
\* created so far, removed logs who took which effect out of the pool
NewAudio == [active_sound_effects |-> <<>>, fx |-> <<>>, removed |-> <<>>]

InPool(a, id) == \E k \in 1..Len(a.active_sound_effects) : a.active_sound_effects[k] = id

\* list.remove: drops the first occurrence
RemoveFirst(seq, id) ==
    LET k == CHOOSE j \in 1..Len(seq) : seq[j] = id /\ \A m \in 1..(j - 1) : seq[m] # id
    IN  SubSeq(seq, 1, k - 1) \o SubSeq(seq, k + 1, Len(seq))

PoolRemove(a, id, who) ==
    [a EXCEPT !.active_sound_effects = RemoveFirst(@, id),
              !.removed = Append(@, [id |-> id, by |-> who])]

\* active_sound_effects.append(SoundEffect(...)); the new object is Len(fx)
Play(a, wf, loop) ==
    [a EXCEPT !.fx = Append(@, SoundEffect(wf, loop)),
              !.active_sound_effects = Append(@, Len(a.fx) + 1)]

\* if sound in active_sound_effects: active_sound_effects.remove(sound)
GuardedRemove(a, id) == IF id # 0 /\ InPool(a, id) THEN PoolRemove(a, id, "sim") ELSE a

\* active_sound_effects.clear()
PoolClear(a) ==
    [a EXCEPT !.active_sound_effects = <<>>,
              !.removed = @ \o [k \in 1..Len(a.active_sound_effects) |->
                                    [id |-> a.active_sound_effects[k], by |-> "sim"]]]

\* any(np.array_equal(e.waveform, chord_waveform) for e in active_sound_effects)
ChordInPool(a) ==
    \E k \in 1..Len(a.active_sound_effects) : a.fx[a.active_sound_effects[k]].waveform = "chord"

\* ---------------------------------------------------------------- universe
\* four bodies of generate_celestial, positions in 1/1000 unit, in the order
\* stars, planets, nebulae of update_starmap_items; the bodies stay where they
\* were generated. dissonance is NEBULA_TYPES[nebula_type]['dissonance'] of a
\* supernova remnant (celestial.py 78), read for nebulae only. The last body
\* has the fifth coordinate that pos[d] = pos[d-2] * PHI + uniform(-10, 10)
\* (celestial.py 50-51) gives it: beyond 100
CelestialBodies == <<
    [pos |-> Vec(-24000, -20000, -18000, -16000, 20000), freq |-> Hz(500), type |-> "star",
     dissonance |-> Rat(0, 1)],
    [pos |-> Vec(20000, 18000, 16000, 17000, -16000), freq |-> Hz(300), type |-> "planet",
     dissonance |-> Rat(0, 1)],
    [pos |-> Vec(-70000, -70000, -70000, -70000, 70000), freq |-> Hz(250), type |-> "nebula",
     dissonance |-> Rat(9, 10)],
    [pos |-> Vec(45000, 48000, 65000, 85000, 110000), freq |-> Hz(250), type |-> "nebula",
     dissonance |-> Rat(9, 10)] >>

Bodies == 1..Len(CelestialBodies)

\* np.linalg.norm(a - b) ** 2, in 1/10 unit squared
DistSq(a, b) == SumOver([i \in Dims |-> ((a[i] - b[i]) \div 100) * ((a[i] - b[i]) \div 100)], Dims)

\* ------------------------------------------------------------------- ship
\* Ship.__init__ with the drawn drive and base target frequencies; object
\* references (lock_sound, biome_sound, locked_target, locked_rift,
\* nearest_body) are 0 for None. rift_objects holds every rift dict created so
\* far, rifts the list self.rifts as indices into it; locked_target holds the
\* index of a body, or minus the index of the rift whose 'pos' it refers to.
\* last_spoken is the dict of Ship.speak as a sequence of [msg, time];
\* lock_log lists what set or cleared the lock so far (history)
Ship(drive, base) ==
    [ position |-> ZeroVec, velocity |-> ZeroVec,
      r_drive |-> drive, base_f_target |-> base, f_target |-> base,
      selected_dim |-> 0, tuning_mode |-> FALSE,
      resonance_levels |-> [i \in Dims |-> ZeroLevel],
      prev_resonance_levels |-> [i \in Dims |-> ZeroLevel],
      resonance_power |-> ZeroVec,
      resonance_width |-> Hz(RESONANCE_WIDTH_BASE),
      max_velocity |-> MAX_VELOCITY_BASE * 1000,
      landed_mode |-> FALSE, crystals_collected |-> 0,
      planet_biome |-> "harmonic", biome_sound |-> 0,
      cursor_pos |-> <<0, 0>>, crystal_positions |-> <<>>, crystal_freqs |-> <<>>,
      locked_crystals |-> {},
      upgrade_mode |-> FALSE, hud_mode |-> FALSE, hud_index |-> 0, hud_len |-> 0,
      starmap_mode |-> FALSE, starmap_index |-> 0, starmap_items |-> <<>>,
      locked_target |-> 0, lock_sound |-> 0,
      locked_is_rift |-> FALSE, locked_rift |-> 0, approached_rift_announced |-> FALSE,
      rift_objects |-> <<>>, rifts |-> <<>>,
      rift_selection_mode |-> FALSE, rift_selection_index |-> 0, rift_items |-> <<>>,
      rift_charge_timer |-> 0, dissonance_timer |-> 0, low_time |-> 0, nearest_body |-> 0,
      last_spoken |-> <<>>, speak_log |-> <<>>, lock_log |-> <<>>, entry_log |-> <<>>,
      savegame |-> <<>>, autosave_enabled |-> TRUE, last_autosave_time |-> 0,
      landing_timer |-> 0, near_object |-> FALSE, resonance_integrity |-> 1000,
      exoplanet_type |-> "super_earth",
      at_amenti |-> FALSE, visited_amenti |-> FALSE, last_temple_check |-> 0,
      speed_mode |-> 2, sing_mode |-> FALSE, sing_active |-> FALSE, pitch_thread |-> "none",
      replaced_threads |-> <<>>,
      idle_mode |-> FALSE, recent_input |-> TRUE,
      simulation_time |-> 0, last_harmonic_check |-> 0, active_harmonics |-> <<>>,
      tuaoi_mode |-> "navigation", tuaoi_mode_index |-> 1, last_tuaoi_switch |-> 0,
      merkaba_active |-> FALSE, golden_harmony_active |-> FALSE,
      frequency_presets |-> <<>>, pending_preset_overwrite |-> 0, pending_preset_time |-> 0,
      portal_anchors |-> <<>>, last_portal_use |-> 0,
      needs_universe_regeneration |-> FALSE, stars |-> FirstUniverse, regen_cause |-> "none" ]

\* ---------------------------------------------------------------- starmap
\* the position a reference stands for: body['pos'] or rift['pos']
RefPos(s, ref) == IF ref < 0 THEN s.rift_objects[-ref].pos ELSE CelestialBodies[ref].pos

\* the order in which update_starmap_items collects the objects
RefOrder(ref) == IF ref < 0 THEN Len(CelestialBodies) - ref ELSE ref

RefType(ref) == IF ref < 0 THEN "rift" ELSE CelestialBodies[ref].type

RiftRefs(s) == {-s.rifts[k] : k \in 1..Len(s.rifts)}

\* dist < SCANNER_RANGE
InRange(s) == {r \in Bodies \cup RiftRefs(s) : DistSq(s.position, RefPos(s, r)) < 500 * 500}

\* items.sort(key=lambda x: x[0]), a stable sort
RECURSIVE SortByDist(_, _)
SortByDist(s, S) ==
    IF S = {} THEN <<>>
    ELSE LET b == CHOOSE x \in S : \A y \in S :
                     \/ DistSq(s.position, RefPos(s, x)) < DistSq(s.position, RefPos(s, y))
                     \/ (DistSq(s.position, RefPos(s, x)) = DistSq(s.position, RefPos(s, y))
                            /\ RefOrder(x) <= RefOrder(y))
         IN  <<[label |-> RefType(b), body |-> b]>> \o SortByDist(s, S \ {b})

update_starmap_items(s) ==
    LET unlock == IF s.locked_target # 0 /\ ~s.locked_is_rift
                  THEN <<[label |-> "unlock target", body |-> 0]>> ELSE <<>>
        items  == unlock \o SortByDist(s, InRange(s))
    IN  [s EXCEPT !.starmap_items =
            IF items = <<>> THEN <<[label |-> "no objects in scanner range", body |-> 0]>> ELSE items]

lock_on_starmap_item(w) ==
    LET selected == w.s.starmap_items[w.s.starmap_index + 1]
    IN  IF selected.label = "unlock target"
        THEN [w EXCEPT !.s.locked_target = 0, !.s.lock_sound = 0,
                       !.s.locked_is_rift = FALSE, !.s.approached_rift_announced = FALSE,
                       !.s.lock_log = Append(@, "unlock"),
                       !.a = GuardedRemove(w.a, w.s.lock_sound)]
        ELSE IF selected.body = 0 THEN w
        ELSE [w EXCEPT !.s.locked_target = selected.body,
                       !.s.lock_log = Append(@, "lock"),
                       !.s.locked_is_rift = (selected.label = "rift"),
                       !.s.locked_rift = IF selected.label = "rift" THEN -selected.body ELSE 0,
                       !.s.lock_sound = Len(w.a.fx) + 1,
                       !.s.approached_rift_announced = FALSE,
                       !.a = Play(w.a, IF selected.label = "rift" THEN "rift_beep" ELSE "beep", TRUE)]

\* ship.py 1050-1068: the rifts by distance, behind "Unlock rift" when a rift
\* is locked
update_rift_items(s) ==
    LET unlock == IF s.locked_rift # 0 THEN <<[label |-> "unlock rift", body |-> 0]>> ELSE <<>>
        items  == unlock \o SortByDist(s, RiftRefs(s))
    IN  [s EXCEPT !.rift_items =
            IF items = <<>> THEN <<[label |-> "no rifts detected", body |-> 0]>> ELSE items]

\* ship.py 1077-1099
\* variant: the rift is locked without a lock tone
lock_on_rift_itemSilent(w) ==
    LET selected == w.s.rift_items[w.s.rift_selection_index + 1]
    IN  IF selected.label = "unlock rift"
        THEN [w EXCEPT !.s.locked_rift = 0, !.s.locked_target = 0, !.s.lock_sound = 0,
                       !.s.locked_is_rift = FALSE, !.s.approached_rift_announced = FALSE,
                       !.s.lock_log = Append(@, "unlock"),
                       !.a = GuardedRemove(w.a, w.s.lock_sound)]
        ELSE IF selected.body = 0 THEN w
        ELSE [w EXCEPT !.s.locked_rift = -selected.body,
                       !.s.locked_target = selected.body,
                       !.s.locked_is_rift = TRUE,
                       !.s.approached_rift_announced = FALSE,
                       !.s.lock_log = Append(@, "lock")]

lock_on_rift_item(w) ==
    LET selected == w.s.rift_items[w.s.rift_selection_index + 1]
    IN  IF selected.label = "unlock rift"
        THEN [w EXCEPT !.s.locked_rift = 0, !.s.locked_target = 0, !.s.lock_sound = 0,
                       !.s.locked_is_rift = FALSE, !.s.approached_rift_announced = FALSE,
                       !.s.lock_log = Append(@, "unlock"),
                       !.a = GuardedRemove(w.a, w.s.lock_sound)]
        ELSE IF selected.body = 0 THEN w
        ELSE [w EXCEPT !.s.locked_rift = -selected.body,
                       !.s.locked_target = selected.body,
                       !.s.locked_is_rift = TRUE,
                       !.s.lock_sound = Len(w.a.fx) + 1,
                       !.s.approached_rift_announced = FALSE,
                       !.s.lock_log = Append(@, "lock"),
                       !.a = Play(w.a, "rift_beep", TRUE)]

\* ship.py 1710-1730; warp is the draw of np.random.uniform(-20, 20) * PHI
enter_rift(w, rift, warp) ==
    LET s == w.s
        a1 == GuardedRemove(w.a, s.rift_objects[rift].sound)
    IN  [w EXCEPT !.s.position = [i \in Dims |-> @[i] + warp[i]],
                  !.s.crystals_collected = IF s.rift_objects[rift].type = "crystal" THEN @ + 1 ELSE @,
                  !.s.resonance_integrity = IF s.rift_objects[rift].type = "hazard" THEN @ - 100 ELSE @,
                  !.s.rifts = SelectSeq(@, LAMBDA r : r # rift),
                  !.s.locked_rift = 0, !.s.locked_target = 0, !.s.locked_is_rift = FALSE,
                  !.s.approached_rift_announced = FALSE, !.s.lock_sound = 0,
                  !.s.lock_log = Append(@, "enter"),
                  !.s.entry_log = Append(@, [listed |-> \E k \in 1..Len(s.rifts) : s.rifts[k] = rift,
                                             dist_sq |-> DistSq(s.position, s.rift_objects[rift].pos),
                                             mean |-> MeanLevelMilli(s.resonance_levels)]),
                  !.a = GuardedRemove(a1, s.lock_sound)]

\* the first item whose label starts with the typed letter
FirstLetter(s, char) ==
    LET labels == CASE char = "s" -> {"star"} [] char = "p" -> {"planet"}
                    [] char = "u" -> {"unlock target"}
                    [] char = "n" -> {"nebula", "no objects in scanner range"}
                    [] char = "r" -> {"rift"}
                    [] OTHER -> {}
        hits == {k \in 1..Len(s.starmap_items) : s.starmap_items[k].label \in labels}
    IN  IF hits = {} THEN s
        ELSE [s EXCEPT !.starmap_index = (CHOOSE k \in hits : \A m \in hits : k <= m) - 1]

\* ------------------------------------------------------- planet and upgrades
GRID_SIZE == 10

CrystalIds(s) == 1..Len(s.crystal_positions)

\* np.linalg.norm(cursor_pos - pos) ** 2, in 1/1000 grid square
CursorDistSq(s, k) ==
    (s.cursor_pos[1] * 1000 - s.crystal_positions[k][1]) * (s.cursor_pos[1] * 1000 - s.crystal_positions[k][1])
    + (s.cursor_pos[2] * 1000 - s.crystal_positions[k][2]) * (s.cursor_pos[2] * 1000 - s.crystal_positions[k][2])

\* np.argmin over the crystals in S: the first of the nearest
NearestIn(s, S) ==
    CHOOSE k \in S : \A m \in S :
        CursorDistSq(s, k) < CursorDistSq(s, m) \/ (CursorDistSq(s, k) = CursorDistSq(s, m) /\ k <= m)

CrystalLevels(s, k) ==
    [i \in Dims |-> ResonanceLevel(s.r_drive[i] - s.crystal_freqs[k][i], s.resonance_width)]

activate_golden_harmony(s) ==
    [s EXCEPT !.golden_harmony_active = TRUE,
              !.max_velocity = Scale(@, PHI),
              !.resonance_width = Scale(@, PHI)]

ascend(w) ==
    [w EXCEPT !.s = [activate_golden_harmony(w.s) EXCEPT !.position = ZeroVec,
                                                       !.needs_universe_regeneration = TRUE,
                                                       !.regen_cause = "ascension",
                                                       !.rifts = <<>>],
              !.a = PoolClear(w.a)]

collect_crystal(w) ==
    LET s == w.s
        nearest == NearestIn(s, CrystalIds(s))
    IN  IF CursorDistSq(s, nearest) > 1000 * 1000 \/ nearest \in s.locked_crystals THEN w
        ELSE LET levels == CrystalLevels(s, nearest)
                 w1 == [w EXCEPT !.s.resonance_levels = levels]
             IN  IF MeanLevelMilli(levels) * CRYSTAL_COLLECTION_THRESHOLD.q
                        > 1000 * CRYSTAL_COLLECTION_THRESHOLD.p
                 THEN LET w2 == [w1 EXCEPT !.s.locked_crystals = @ \cup {nearest},
                                           !.s.crystals_collected = @ + 1,
                                           !.a = Play(w.a, "lock_beep", FALSE)]
                      IN  IF w2.s.crystals_collected >= ASCENSION_CRYSTAL_THRESHOLD
                          THEN ascend(w2) ELSE w2
                 ELSE w1

scan_nearest_crystal(w) ==
    LET s == w.s
        open == CrystalIds(s) \ s.locked_crystals
    IN  IF open = {} THEN w
        ELSE LET nearest == NearestIn(s, open)
             IN  IF 2 * MeanLevelMilli(CrystalLevels(s, nearest)) > 1000
                 THEN [w EXCEPT !.s.r_drive = s.crystal_freqs[nearest],
                                !.a = Play(w.a, "lock_beep", FALSE)]
                 ELSE w

auto_tune(s) ==
    [s EXCEPT !.r_drive = [i \in Dims |-> s.r_drive[i] + TruncDiv(s.f_target[i] - s.r_drive[i], 10)]]

UPGRADE_COSTS == <<1, 1, 2, 3, 5, 8>>

UPGRADE_NAMES ==
    <<"Resonance Width", "Integrity Repair", "Max Velocity", "Auto-Tune Helper", "Crystal Growth",
      "Golden Harmony Mode">>

MAX_PORTAL_ANCHORS == 7

PORTAL_ANCHOR_COST == 3

PORTAL_TRAVEL_RESONANCE == Rat(17, 20)

PORTAL_COOLDOWN == 30

\* the cooldown of msg has run out, or msg was never spoken (ship.py 261)
MayForward(s, msg) ==
    \A k \in 1..Len(s.last_spoken) :
        s.last_spoken[k].msg = msg
            => SPEECH_COOLDOWN.q * (s.simulation_time - s.last_spoken[k].time) > SPEECH_COOLDOWN.p * 1000

\* variant: a request that is dropped restarts the cooldown
SpeakRestarts(s, msg) ==
    [s EXCEPT !.last_spoken = Append(SelectSeq(@, LAMBDA e : e.msg # msg),
                                     [msg |-> msg, time |-> s.simulation_time]),
              !.speak_log = Append(@, [msg |-> msg, time |-> s.simulation_time,
                                       forwarded |-> MayForward(s, msg)])]

\* Ship.speak; speak_log is history: every request, and whether tolk.speak
\* got it
Speak(s, msg) ==
    IF MayForward(s, msg)
    THEN [s EXCEPT !.last_spoken = Append(SelectSeq(@, LAMBDA e : e.msg # msg),
                                          [msg |-> msg, time |-> s.simulation_time]),
                   !.speak_log = Append(@, [msg |-> msg, time |-> s.simulation_time, forwarded |-> TRUE])]
    ELSE [s EXCEPT !.speak_log = Append(@, [msg |-> msg, time |-> s.simulation_time, forwarded |-> FALSE])]

\* variant: the width upgrade narrows the resonance
UpgradeEffectNarrows(s) ==
    CASE s.hud_index = 0 -> [s EXCEPT !.resonance_width = @ - Scale(Hz(1), Rat(PHI.p, 2 * PHI.q))]
      [] s.hud_index = 2 -> [s EXCEPT !.max_velocity = Scale(@, PHI)]
      [] s.hud_index = 3 -> auto_tune(s)
      [] s.hud_index = 5 -> activate_golden_harmony(s)
      [] OTHER -> s

\* the effect of self.upgrades[hud_index]; crystal growth writes no modelled
\* field
UpgradeEffect(s) ==
    CASE s.hud_index = 0 -> [s EXCEPT !.resonance_width = @ + Scale(Hz(1), Rat(PHI.p, 2 * PHI.q))]
      [] s.hud_index = 1 -> [s EXCEPT !.resonance_integrity = Min2(1000, @ + Scale(200, PHI))]
      [] s.hud_index = 2 -> [s EXCEPT !.max_velocity = Scale(@, PHI)]
      [] s.hud_index = 3 -> auto_tune(s)
      [] s.hud_index = 5 -> activate_golden_harmony(s)
      [] OTHER -> s

apply_upgrade(s) ==
    IF s.crystals_collected >= UPGRADE_COSTS[s.hud_index + 1]
    THEN Speak([UpgradeEffect(s) EXCEPT !.crystals_collected = @ - UPGRADE_COSTS[s.hud_index + 1]],
               UPGRADE_NAMES[s.hud_index + 1] \o " upgraded. Cost: "
                   \o ToString(UPGRADE_COSTS[s.hud_index + 1]) \o " crystals.")
    ELSE Speak(s, "Insufficient crystals.")

\* ------------------------------------------------------------ handle_input
\* one frame of input: the KEYDOWN event ev (with the digit slot and modifier
\* for a number key), a second KEYDOWN event of the same frame (then: one of
\* the menu keys M, U and E, or none) and the set of keys held down
Key(ev, held) ==
    [ev |-> ev, held |-> held, slot |-> 0, mod |-> "none", warp |-> ZeroVec, then |-> "none"]

Digit(slot, mod) ==
    [ev |-> "digit", held |-> {}, slot |-> slot, mod |-> mod, warp |-> ZeroVec, then |-> "none"]

\* the second event of the list
Second(inp) == [inp EXCEPT !.ev = inp.then, !.then = "none"]

\* ship.py 453-457; recent_input stands for time.time() - last_input_time
\* being below the idle threshold
NoteInput(s, inp) ==
    IF inp.ev # "none" \/ inp.held # {}
    THEN [s EXCEPT !.recent_input = TRUE, !.idle_mode = FALSE]
    ELSE [s EXCEPT !.recent_input = FALSE]

\* ship.py 460-467: the menu the events of this frame go to
MenuMode(s) ==
    IF s.rift_selection_mode THEN "rift"
    ELSE IF s.starmap_mode THEN "starmap"
    ELSE IF s.upgrade_mode THEN "upgrade"
    ELSE "hud"

\* ship.py 468-520: one event in the menu mode
MenuEvent(mode, w, inp) ==
    LET s == w.s
        n == Len(s.starmap_items)
        r == Len(s.rift_items)
    IN  IF mode = "rift"
        THEN CASE inp.ev = "e" -> [w EXCEPT !.s.rift_selection_mode = FALSE]
               [] inp.ev = "up" -> IF r > 1 THEN [w EXCEPT !.s.rift_selection_index = (@ - 1) % r] ELSE w
               [] inp.ev = "down" -> IF r > 1 THEN [w EXCEPT !.s.rift_selection_index = (@ + 1) % r] ELSE w
               [] inp.ev = "return" -> lock_on_rift_item(w)
               [] OTHER -> w
        ELSE IF mode = "starmap"
        THEN CASE inp.ev = "m" -> [w EXCEPT !.s.starmap_mode = FALSE]
               [] inp.ev = "up" -> IF n > 1 THEN [w EXCEPT !.s.starmap_index = (@ - 1) % n] ELSE w
               [] inp.ev = "down" -> IF n > 1 THEN [w EXCEPT !.s.starmap_index = (@ + 1) % n] ELSE w
               [] inp.ev = "return" -> lock_on_starmap_item(w)
               [] OTHER -> [w EXCEPT !.s = FirstLetter(s, inp.ev)]
        ELSE CASE inp.ev = "u" -> [w EXCEPT !.s.hud_mode = FALSE, !.s.upgrade_mode = FALSE]
               [] inp.ev = "up" -> [w EXCEPT !.s.hud_index = (@ - 1) % s.hud_len]
               [] inp.ev = "down" -> [w EXCEPT !.s.hud_index = (@ + 1) % s.hud_len]
               [] inp.ev = "return" -> IF mode = "upgrade" THEN [w EXCEPT !.s = apply_upgrade(s)] ELSE w
               [] OTHER -> w

\* ship.py 459-520: a menu is open; the mode is taken once, before the events
MenuInput(w, inp) ==
    LET mode == MenuMode(w.s)
    IN  IF inp.then = "none" THEN MenuEvent(mode, w, inp)
        ELSE Then(MenuEvent(mode, w, inp), LAMBDA w1 : MenuEvent(mode, w1, Second(inp)))

\* ship.py 530-574: number keys
\* Ctrl+slot that stores without asking
DigitKeyDirect(s, inp) ==
    LET slot == inp.slot
    IN  CASE inp.mod = "ctrl" ->
               [s EXCEPT !.frequency_presets =
                             [k \in DOMAIN @ \cup {slot} |-> IF k = slot THEN s.r_drive ELSE @[k]],
                         !.pending_preset_overwrite = 0]
          [] inp.mod = "shift" ->
               IF slot \in DOMAIN s.frequency_presets
               THEN [s EXCEPT !.r_drive = s.frequency_presets[slot]] ELSE s
          [] OTHER -> IF slot <= 5 THEN [s EXCEPT !.selected_dim = slot - 1] ELSE s

DigitKey(s, inp) ==
    LET slot == inp.slot
    IN  CASE inp.mod = "ctrl" ->
               IF slot \in DOMAIN s.frequency_presets
                  /\ ~(s.pending_preset_overwrite = slot
                       /\ s.simulation_time - s.pending_preset_time < 3000)
               THEN [s EXCEPT !.pending_preset_overwrite = slot,
                              !.pending_preset_time = s.simulation_time]
               ELSE [s EXCEPT !.frequency_presets =
                                  [k \in DOMAIN @ \cup {slot} |-> IF k = slot THEN s.r_drive ELSE @[k]],
                              !.pending_preset_overwrite = 0]
          [] inp.mod = "shift" ->
               IF slot \in DOMAIN s.frequency_presets
               THEN [s EXCEPT !.r_drive = s.frequency_presets[slot]] ELSE s
          [] OTHER -> IF slot <= 5 THEN [s EXCEPT !.selected_dim = slot - 1] ELSE s

takeoff(w) ==
    [w EXCEPT !.s.landed_mode = FALSE, !.s.biome_sound = 0,
              !.a = GuardedRemove(w.a, w.s.biome_sound)]

MoveCursor(s, dx, dy) ==
    [s EXCEPT !.cursor_pos = << Max2(-GRID_SIZE, Min2(GRID_SIZE, @[1] + dx)),
                                Max2(-GRID_SIZE, Min2(GRID_SIZE, @[2] + dy)) >>]

\* ship.py 682-702: E enters or charges the locked rift, or opens the rift menu
RiftKey(w, warp) ==
    LET s == w.s
        close == DistSq(s.position, RefPos(s, s.locked_target))
                     < (RIFT_ALIGNMENT_TOLERANCE * 10) * (RIFT_ALIGNMENT_TOLERANCE * 10)
        mean == MeanLevelMilli(s.resonance_levels)
    IN  IF s.locked_is_rift /\ s.locked_target # 0
        THEN IF close /\ mean * RIFT_ENTRY_RES_THRESHOLD.q > 1000 * RIFT_ENTRY_RES_THRESHOLD.p
             THEN IF s.locked_rift # 0 THEN enter_rift(w, s.locked_rift, warp) ELSE w
             ELSE IF close /\ mean * RIFT_ENTRY_RES_THRESHOLD.q * 2 > 1000 * RIFT_ENTRY_RES_THRESHOLD.p
             THEN [w EXCEPT !.s.rift_charge_timer = RIFT_CHARGE_TIME * 1000]
             ELSE w
        ELSE IF Len(s.rifts) > 0
        THEN [w EXCEPT !.s = [update_rift_items(s) EXCEPT !.rift_selection_mode = TRUE,
                                                         !.rift_selection_index = 0]]
        ELSE w

\* ship.py 616-619, 2372-2375: LANDING_THRESHOLD, times the difficulty of the
\* nearest body when that is a planet
LandingThreshold(s) ==
    IF s.nearest_body # 0 /\ CelestialBodies[s.nearest_body].type = "planet"
    THEN Rat(LANDING_THRESHOLD.p * Difficulty(s.exoplanet_type).p,
             LANDING_THRESHOLD.q * Difficulty(s.exoplanet_type).q)
    ELSE LANDING_THRESHOLD

LandingConditions(s) ==
    /\ MeanAbove(s, LandingThreshold(s))
    /\ s.nearest_body # 0
    /\ CelestialBodies[s.nearest_body].type = "planet"

\* ship.py 613-633: the L key in flight, with or without a modifier
LandingKey(w) ==
    LET s == w.s
    IN  IF s.near_object /\ LandingConditions(s)
        THEN [w EXCEPT !.s = Speak([s EXCEPT !.landing_timer = LANDING_TIME * 1000],
                                   "Initiating anchoring sequence.")]
        ELSE [w EXCEPT !.s = Speak([s EXCEPT !.resonance_integrity = @ - 10],
                                   IF ~s.near_object
                                   THEN "No celestial body nearby for anchoring. Minor integrity loss."
                                   ELSE IF ~MeanAbove(s, LandingThreshold(s))
                                   THEN "Harmonic alignment too low for anchoring. Minor integrity loss."
                                   ELSE "Cannot anchor on this object. Minor integrity loss.")]

\* ship.py 1734-1750: the state dictionary that is pickled
SaveKeys ==
    <<"position", "velocity", "r_drive", "base_f_target", "resonance_integrity", "crystals_collected",
      "resonance_width", "max_velocity", "crystal_bonus", "golden_harmony_active", "frequency_presets",
      "stars", "planets", "nebulae", "rifts">>

\* keys is the set of keys of the pickled dictionary; planets is the exoplanet
\* type of the planet
SavedState(s) ==
    [keys |-> {SaveKeys[k] : k \in 1..Len(SaveKeys)}, planets |-> s.exoplanet_type, stars |-> s.stars,
     position |-> s.position, velocity |-> s.velocity, r_drive |-> s.r_drive,
     base_f_target |-> s.base_f_target, resonance_integrity |-> s.resonance_integrity,
     crystals_collected |-> s.crystals_collected,
     resonance_width |-> s.resonance_width, max_velocity |-> s.max_velocity,
     golden_harmony_active |-> s.golden_harmony_active,
     frequency_presets |-> s.frequency_presets,
     rifts |-> [k \in 1..Len(s.rifts) |-> s.rift_objects[s.rifts[k]]]]

\* Ship.save_game: savegame is the file savegame.pkl, empty when there is none
save_game(w) == [w EXCEPT !.s = Speak([w.s EXCEPT !.savegame = <<SavedState(w.s)>>], "Game saved.")]

\* ship.py 1774-1778: every unpickled rift is a new dictionary and gets a new
\* hum, appended to the pool
RECURSIVE LoadRifts(_, _, _)
LoadRifts(w, saved, k) ==
    IF k > Len(saved) THEN w
    ELSE LoadRifts([w EXCEPT !.s.rift_objects = Append(@, [saved[k] EXCEPT !.sound = Len(w.a.fx) + 1]),
                             !.s.rifts = Append(@, Len(w.s.rift_objects) + 1),
                             !.a = Play(w.a, "rift_hum", TRUE)],
                   saved, k + 1)

\* the first key that state[...] does not find, in the order load_game reads
\* them (frequency_presets is read with .get); Len(SaveKeys) + 1 if none
FirstMissing(state) ==
    LET missing == {k \in 1..Len(SaveKeys) :
                       SaveKeys[k] \notin state.keys /\ SaveKeys[k] # "frequency_presets"}
    IN  IF missing = {} THEN Len(SaveKeys) + 1
        ELSE CHOOSE k \in missing : \A j \in missing : k <= j

\* an assignment of load_game is reached if no earlier key was missing
LoadedField(state, key, old, new) ==
    IF (CHOOSE k \in 1..Len(SaveKeys) : SaveKeys[k] = key) < FirstMissing(state) THEN new ELSE old

\* Ship.load_game; without a file open() raises and nothing is assigned; a
\* missing key raises where it is read, after the assignments before it; the
\* bare except says the same in both cases
load_game(w) ==
    IF w.s.savegame = <<>> THEN [w EXCEPT !.s = Speak(w.s, "No save file found.")]
    ELSE LET state == w.s.savegame[1]
             s     == w.s
             w1    == [w EXCEPT
                 !.s.position = LoadedField(state, "position", s.position, state.position),
                 !.s.velocity = LoadedField(state, "velocity", s.velocity, state.velocity),
                 !.s.r_drive = LoadedField(state, "r_drive", s.r_drive, state.r_drive),
                 !.s.base_f_target =
                     LoadedField(state, "base_f_target", s.base_f_target, state.base_f_target),
                 !.s.resonance_integrity =
                     LoadedField(state, "resonance_integrity", s.resonance_integrity, state.resonance_integrity),
                 !.s.crystals_collected =
                     LoadedField(state, "crystals_collected", s.crystals_collected, state.crystals_collected),
                 !.s.resonance_width =
                     LoadedField(state, "resonance_width", s.resonance_width, state.resonance_width),
                 !.s.max_velocity = LoadedField(state, "max_velocity", s.max_velocity, state.max_velocity),
                 !.s.golden_harmony_active =
                     LoadedField(state, "golden_harmony_active", s.golden_harmony_active,
                                 state.golden_harmony_active),
                 !.s.frequency_presets =
                     LoadedField(state, "frequency_presets", s.frequency_presets,
                                 IF "frequency_presets" \in state.keys THEN state.frequency_presets ELSE <<>>),
                 !.s.stars = LoadedField(state, "stars", s.stars, state.stars),
                 !.s.exoplanet_type = LoadedField(state, "planets", s.exoplanet_type, state.planets),
                 !.s.rifts = LoadedField(state, "rifts", s.rifts, <<>>)]
         IN  IF FirstMissing(state) <= Len(SaveKeys)
             THEN [w1 EXCEPT !.s = Speak(w1.s, "No save file found.")]
             ELSE Then(LoadRifts(w1, state.rifts, 1), LAMBDA w2 :
                  [w2 EXCEPT !.s = Speak([w2.s EXCEPT !.needs_universe_regeneration = TRUE,
                                                      !.regen_cause = "load"], "Game loaded.")])

\* ship.py 527-812: the KEYDOWN chain, then the landed-mode keys
\* variant: H starts a pitch thread whenever sing mode is switched on
SingKeyAlways(s) ==
    IF s.sing_mode THEN [s EXCEPT !.sing_mode = FALSE, !.sing_active = FALSE]
    ELSE [s EXCEPT !.sing_mode = TRUE, !.sing_active = TRUE, !.pitch_thread = "check",
                   !.replaced_threads = IF s.pitch_thread = "none" THEN @ ELSE Append(@, s.pitch_thread)]

\* ship.py 708-717: H toggles sing mode; switched on, a thread is started
\* unless pitch_thread is alive. pitch_thread is where the thread object it
\* refers to stands, replaced_threads where the objects it referred to before
\* stood when they were replaced
SingKey(s) ==
    IF s.sing_mode THEN [s EXCEPT !.sing_mode = FALSE, !.sing_active = FALSE]
    ELSE IF s.pitch_thread \in {"none", "dead"}
    THEN [s EXCEPT !.sing_mode = TRUE, !.sing_active = TRUE, !.pitch_thread = "check",
                   !.replaced_threads = IF s.pitch_thread = "none" THEN @ ELSE Append(@, s.pitch_thread)]
    ELSE [s EXCEPT !.sing_mode = TRUE, !.sing_active = TRUE]

\* variant: an anchor is set on credit
create_portal_anchorOnCredit(w) ==
    LET s == w.s
        n == Len(s.portal_anchors) + 1
    IN  IF n > MAX_PORTAL_ANCHORS THEN w
        ELSE [w EXCEPT !.s = [s EXCEPT !.crystals_collected = @ - PORTAL_ANCHOR_COST,
                                       !.portal_anchors = Append(@, [pos |-> s.position, name |-> n,
                                                                     freq |-> 0])]]

\* Ship.create_portal_anchor; freq is the mean drive frequency, rounded down
create_portal_anchor(w) ==
    LET s == w.s
        n == Len(s.portal_anchors) + 1
    IN  IF Len(s.portal_anchors) >= MAX_PORTAL_ANCHORS
        THEN [w EXCEPT !.s = Speak(s, "Maximum " \o ToString(MAX_PORTAL_ANCHORS)
                                          \o " portal anchors reached. Use an existing anchor first.")]
        ELSE IF s.crystals_collected < PORTAL_ANCHOR_COST
        THEN [w EXCEPT !.s = Speak(s, "Insufficient crystals. Need " \o ToString(PORTAL_ANCHOR_COST)
                                          \o " to create portal anchor.")]
        ELSE [w EXCEPT !.s =
                 Speak([s EXCEPT !.crystals_collected = @ - PORTAL_ANCHOR_COST,
                                 !.portal_anchors =
                                     Append(@, [pos |-> s.position, name |-> n,
                                                freq |-> SumOver(s.r_drive, Dims) \div N_DIMENSIONS])],
                       "Portal anchor 'Anchor " \o ToString(n) \o "' created. " \o ToString(n) \o "/"
                           \o ToString(MAX_PORTAL_ANCHORS) \o " anchors set.")]

\* Ship.use_portal_anchor
use_portal_anchor(w) ==
    LET s == w.s
    IN  IF s.portal_anchors = <<>>
        THEN [w EXCEPT !.s = Speak(s, "No portal anchors set. Create one with P key.")]
        ELSE IF s.simulation_time - s.last_portal_use < PORTAL_COOLDOWN * 1000
        THEN [w EXCEPT !.s = Speak(s, "Portal cooldown active. "
                  \o ToString((PORTAL_COOLDOWN * 1000 - (s.simulation_time - s.last_portal_use)) \div 1000)
                  \o " seconds remaining.")]
        ELSE IF MeanBelow(s, PORTAL_TRAVEL_RESONANCE)
        THEN [w EXCEPT !.s = Speak(s, "Insufficient resonance for portal travel. Tune frequencies higher.")]
        ELSE [w EXCEPT !.s = Speak([s EXCEPT !.position = s.portal_anchors[1].pos,
                                             !.last_portal_use = s.simulation_time],
                                   "Portal activated. Teleported to Anchor "
                                       \o ToString(s.portal_anchors[1].name) \o ".")]

KeyDown(w, inp) ==
    LET s == w.s
    IN  CASE inp.ev = "digit" -> [w EXCEPT !.s = DigitKey(s, inp)]
          [] inp.ev = "p" ->
               IF s.landed_mode THEN w
               ELSE IF inp.mod = "shift" THEN use_portal_anchor(w) ELSE create_portal_anchor(w)
          [] inp.ev = "e" -> IF s.landed_mode THEN w ELSE RiftKey(w, inp.warp)
          [] inp.ev = "j" -> [w EXCEPT !.s.tuning_mode = ~@]
          [] inp.ev = "g" ->
               IF s.simulation_time - s.last_tuaoi_switch > TUAOI_MODE_SWITCH_COOLDOWN * 1000
               THEN [w EXCEPT !.s.tuaoi_mode_index = (@ + 1) % Len(TUAOI_MODES),
                              !.s.tuaoi_mode = TUAOI_MODES[((s.tuaoi_mode_index + 1) % Len(TUAOI_MODES)) + 1].name,
                              !.s.last_tuaoi_switch = s.simulation_time]
               ELSE w
          [] inp.ev = "m" ->
               IF s.starmap_mode THEN [w EXCEPT !.s.starmap_mode = FALSE]
               ELSE [w EXCEPT !.s = [update_starmap_items(s) EXCEPT !.starmap_mode = TRUE,
                                                                   !.starmap_index = 0]]
          [] inp.ev = "t" -> IF s.landed_mode THEN takeoff(w) ELSE w
          [] inp.ev = "u" ->
               IF s.landed_mode /\ Cardinality(s.locked_crystals) = Len(s.crystal_positions)
               THEN [w EXCEPT !.s.upgrade_mode = TRUE, !.s.hud_index = 0, !.s.hud_len = Len(UPGRADE_COSTS)]
               ELSE [w EXCEPT !.s.hud_mode = TRUE, !.s.hud_index = 0,
                              !.s.hud_len = IF s.landed_mode THEN 17 ELSE 15]
          [] inp.ev = "z" -> IF ~s.tuning_mode THEN [w EXCEPT !.s.speed_mode = (@ + 1) % Len(SPEED_FACTORS)] ELSE w
          [] inp.ev = "h" -> [w EXCEPT !.s = SingKey(s)]
          [] inp.ev = "f" -> IF s.landed_mode THEN scan_nearest_crystal(w) ELSE w
          [] inp.ev = "x" -> IF s.landed_mode THEN collect_crystal(w) ELSE w
          [] inp.ev = "w" -> IF s.landed_mode THEN [w EXCEPT !.s = MoveCursor(s, 0, 1)] ELSE w
          [] inp.ev = "s" ->
               Then(IF inp.mod = "ctrl" THEN save_game(w) ELSE w, LAMBDA w1 :
                    IF s.landed_mode THEN [w1 EXCEPT !.s = MoveCursor(w1.s, 0, -1)] ELSE w1)
          [] inp.ev = "l" ->
               IF ~s.landed_mode THEN LandingKey(w)
               ELSE IF inp.mod = "ctrl" THEN load_game(w) ELSE w
          [] inp.ev = "a" ->
               Then(IF inp.mod = "ctrl"
                    THEN [w EXCEPT !.s = Speak([s EXCEPT !.autosave_enabled = ~@],
                                               IF s.autosave_enabled THEN "Autosave disabled."
                                               ELSE "Autosave enabled.")]
                    ELSE w, LAMBDA w1 :
                    IF s.landed_mode THEN [w1 EXCEPT !.s = MoveCursor(w1.s, -1, 0)] ELSE w1)
          [] inp.ev = "d" -> IF s.landed_mode THEN [w EXCEPT !.s = MoveCursor(s, 1, 0)] ELSE w
          [] OTHER -> w

\* ship.py 829-852: rate * DT, in frequency units per frame
TuningStep(s) ==
    LET open == CrystalIds(s) \ s.locked_crystals
    IN  IF ~s.landed_mode THEN (Hz(TUNING_RATE)) \div FPS
        ELSE IF open = {} THEN (Hz(TUNING_RATE_PLANET)) \div FPS
        ELSE LET delta == Abs(s.r_drive[s.selected_dim] - s.crystal_freqs[NearestIn(s, open)][s.selected_dim])
                 rate  == TUNING_RATE_PLANET * ((delta * 1000) \div Hz(50) + 100)
             IN  (Max2(1000, Min2(TUNING_RATE_PLANET * 1000, rate)) * FreqScale) \div (FPS * 1000)

\* ship.py 854-865
ArrowTuning(s, inp) ==
    LET d  == s.selected_dim
        up == IF "up" \in inp.held THEN Min2(s.r_drive[d] + TuningStep(s), Hz(FREQUENCY_MAX)) ELSE s.r_drive[d]
        dn == IF "down" \in inp.held THEN Max2(up - TuningStep(s), Hz(FREQUENCY_MIN)) ELSE up
    IN  IF s.tuning_mode \/ d >= 3 THEN [s EXCEPT !.r_drive[d] = dn] ELSE s

\* ship.py 890-918: manual navigation of the three spatial dimensions
DesiredVel(s, inp, i) ==
    LET thrust == Scale(s.max_velocity, SPEED_FACTORS[s.speed_mode + 1])
        plus   == <<"d", "w", "pagedown">>[i + 1]
        minus  == <<"a", "s", "pageup">>[i + 1]
    IN  (IF plus \in inp.held THEN thrust ELSE 0) - (IF minus \in inp.held THEN thrust ELSE 0)

ManualDrive(s, inp, i) ==
    LET desired == DesiredVel(s, inp, i)
    IN  IF desired # 0
        THEN s.f_target[i] + Sign(desired) * InverseDelta(s.resonance_width, CapRes(Abs(desired), s.max_velocity))
        ELSE s.f_target[i]

ManualNavigation(s, inp) ==
    IF s.tuning_mode THEN s
    ELSE [s EXCEPT !.r_drive = [i \in Dims |-> IF i < 3 THEN ManualDrive(s, inp, i) ELSE @[i]]]

\* ship.py 527-812: the events of the frame in turn
KeyEvents(w, inp) ==
    IF inp.then = "none" THEN KeyDown(w, inp)
    ELSE Then(KeyDown(w, inp), LAMBDA w1 : KeyDown(w1, Second(inp)))

handle_input(w, inp) ==
    Then([w EXCEPT !.s = NoteInput(w.s, inp)], LAMBDA w1 :
        IF w1.s.hud_mode \/ w1.s.upgrade_mode \/ w1.s.starmap_mode \/ w1.s.rift_selection_mode
        THEN MenuInput(w1, inp)
        ELSE Then(KeyEvents(w1, inp), LAMBDA w2 :
             Then([w2 EXCEPT !.s = ArrowTuning(w2.s, inp)], LAMBDA w3 :
                 IF w3.s.landed_mode THEN w3
                 ELSE [w3 EXCEPT !.s = ManualNavigation(w3.s, inp)])))

\* ------------------------------------------------------------------ update
\* ship.py 1808-1814: cosmic meditation
IdleStep(w) ==
    IF ~w.s.idle_mode THEN w
    ELSE [w EXCEPT !.s.r_drive = [i \in Dims |-> @[i] + TruncDiv(w.s.f_target[i] - @[i], 100)],
                   !.a = IF ChordInPool(w.a) THEN @ ELSE Play(@, "chord", TRUE)]

\* ship.py 1819-1821: random.uniform(-shift, shift), drawn as drift[i] * shift
LandedTargets(s, dt, drift) ==
    LET shift == ((IF s.planet_biome = "dissonant" THEN 10 ELSE 1) * dt * FreqScale) \div 1000
    IN  [i \in Dims |-> Clamp(s.f_target[i] + drift[i] * shift)]

\* ship.py 1828-1838: influence of the bodies close in dimension d
EnvInfluence(s, d) ==
    SumOver([b \in Bodies |->
                LET dist == Abs(s.position[d] - CelestialBodies[b].pos[d])
                IN  IF b # s.locked_target /\ dist < INTERACTION_DISTANCE * 1000
                    THEN Scale(((INTERACTION_DISTANCE * 1000 - dist) * CelestialBodies[b].freq)
                                   \div (INTERACTION_DISTANCE * 1000), Rat(PhiPow(d), 1000))
                    ELSE 0], Bodies)

\* ship.py 1839-1840
\* variant: base plus influence, not clamped
FlightTargetsUnclamped(s) == [i \in Dims |-> s.base_f_target[i] + EnvInfluence(s, i)]

FlightTargets(s) == [i \in Dims |-> Clamp(s.base_f_target[i] + EnvInfluence(s, i))]

\* ship.py 1844-1848, distances in 1/10 unit
DirVec(s) == [i \in Dims |-> RefPos(s, s.locked_target)[i] - s.position[i]]

NormSq(s) == DistSq(RefPos(s, s.locked_target), s.position)

\* norm < stop_dist, RIFT_ALIGNMENT_TOLERANCE for a rift and 1.0 otherwise
Arrived(s) ==
    IF s.locked_is_rift
    THEN NormSq(s) < (RIFT_ALIGNMENT_TOLERANCE * 10) * (RIFT_ALIGNMENT_TOLERANCE * 10)
    ELSE NormSq(s) < 10 * 10

\* norm < SLOWDOWN_DIST / 2
Snapping(s) == NormSq(s) < (SLOWDOWN_DIST * 5) * (SLOWDOWN_DIST * 5)

\* variant: the distance in the dimension over the slowdown distance, whatever
\* the distance to the target
AutopilotResOverSlowdown(s, i) ==
    LET a == Abs(DirVec(s)[i]) \div 100
        b == SLOWDOWN_DIST * 10
    IN  IF a * s.max_velocity > 10 * b THEN CapRes(a, b) ELSE Rat(0, 1)

\* ship.py 1866-1869: target_res = |dir_i| / max(norm, SLOWDOWN_DIST), capped
\* at 0.999, or 0 when the desired speed is at most 0.01
AutopilotRes(s, i) ==
    LET a == Abs(DirVec(s)[i]) \div 100
        b == Max2(ISqrt(NormSq(s)), SLOWDOWN_DIST * 10)
    IN  IF a * s.max_velocity > 10 * b THEN CapRes(a, b) ELSE Rat(0, 1)

\* ship.py 1870-1876
TargetDrive(s, i) ==
    LET res == AutopilotRes(s, i)
    IN  IF res.p > 0
        THEN s.f_target[i] + Sign(DirVec(s)[i]) * InverseDelta(s.resonance_width, res)
        ELSE s.f_target[i]

\* ship.py 1877-1884
AutopilotDrive(s, i) ==
    IF Snapping(s) THEN TargetDrive(s, i)
    ELSE s.r_drive[i] + Scale(TargetDrive(s, i) - s.r_drive[i],
                              IF s.tuaoi_mode = "navigation" THEN Rat(15, 100) ELSE Rat(1, 10))

\* variant: the lock is dropped on arrival but its tone stays in the pool
ArriveKeepsTone(w) ==
    LET w1 == [w EXCEPT !.s.r_drive = w.s.f_target, !.s.velocity = ZeroVec,
                        !.t.auto = "arrived", !.t.lock_sound = w.s.lock_sound,
                        !.t.norm_sq = NormSq(w.s)]
    IN  IF w.s.locked_is_rift
        THEN [w1 EXCEPT !.s.approached_rift_announced = TRUE]
        ELSE [w1 EXCEPT !.s.locked_target = 0, !.s.locked_is_rift = FALSE, !.s.lock_sound = 0,
                        !.s.lock_log = Append(@, "arrived")]

\* variant: arrival drops the lock whatever the kind of the target
ArriveClearsRift(w) ==
    [w EXCEPT !.s.r_drive = w.s.f_target, !.s.velocity = ZeroVec,
              !.t.auto = "arrived", !.t.lock_sound = w.s.lock_sound,
              !.t.norm_sq = NormSq(w.s),
              !.s.locked_target = 0, !.s.locked_is_rift = FALSE, !.s.lock_sound = 0,
              !.s.lock_log = Append(@, "arrived"),
              !.a = GuardedRemove(w.a, w.s.lock_sound)]

\* ship.py 1850-1863: the drive snaps to the targets; a rift lock stays, any
\* other lock is dropped together with its tone
Arrive(w) ==
    LET w1 == [w EXCEPT !.s.r_drive = w.s.f_target, !.s.velocity = ZeroVec,
                        !.t.auto = "arrived", !.t.lock_sound = w.s.lock_sound,
                        !.t.norm_sq = NormSq(w.s)]
    IN  IF w.s.locked_is_rift
        THEN [w1 EXCEPT !.s.approached_rift_announced = TRUE]
        ELSE [w1 EXCEPT !.s.locked_target = 0, !.s.locked_is_rift = FALSE, !.s.lock_sound = 0,
                        !.s.lock_log = Append(@, "arrived"),
                        !.a = GuardedRemove(w.a, w.s.lock_sound)]

\* ship.py 1843-1892
Autopilot(w) ==
    LET s == w.s
    IN  IF s.locked_target = 0 THEN w
        ELSE IF Arrived(s) THEN Arrive(w)
        ELSE [w EXCEPT !.s.r_drive = [i \in Dims |-> AutopilotDrive(s, i)],
                       !.t.auto = IF Snapping(s) THEN "snap" ELSE "interpolate",
                       !.t.res = [i \in Dims |-> AutopilotRes(s, i)],
                       !.t.dir = DirVec(s), !.t.norm_sq = NormSq(s)]

\* variant: below the threshold the power decays instead of resetting
LoopPowerDecay(level, power, dt) ==
    IF LevelAbove(level, POWER_BUILD_THRESHOLD) THEN power + dt ELSE Max2(0, power - dt)

\* ship.py 1924-1927
LoopPower(level, power, dt) ==
    IF LevelAbove(level, POWER_BUILD_THRESHOLD) THEN power + dt ELSE 0

RECURSIVE PlayTimes(_, _, _)
PlayTimes(a, wf, n) == IF n = 0 THEN a ELSE PlayTimes(Play(a, wf, FALSE), wf, n - 1)

\* ship.py 1915-1929: the resonance loop
ResonanceLoop(w, dt) ==
    LET s == w.s
        width  == [i \in Dims |-> EffectiveWidth(s.resonance_width, s.tuaoi_mode, i)]
        levels == [i \in Dims |-> ResonanceLevel(s.r_drive[i] - s.f_target[i], width[i])]
        power  == [i \in Dims |-> LoopPower(levels[i], s.resonance_power[i], dt)]
        pings  == {i \in Dims : /\ LevelAbove(levels[i], PERFECT_RESONANCE_THRESHOLD)
                                /\ ~LevelAbove(s.prev_resonance_levels[i], PERFECT_RESONANCE_THRESHOLD)}
    IN  [w EXCEPT !.s.resonance_levels = levels,
                  !.s.resonance_power = power,
                  !.s.velocity = [i \in Dims |->
                      LoopVelocity(s.max_velocity, levels[i], s.r_drive[i] - s.f_target[i], power[i])],
                  !.a = PlayTimes(w.a, "ping", Cardinality(pings)),
                  !.t.delta_f = [i \in Dims |-> s.r_drive[i] - s.f_target[i]],
                  !.t.width = width,
                  !.t.level = levels,
                  !.t.velocity = [i \in Dims |->
                      LoopVelocity(s.max_velocity, levels[i], s.r_drive[i] - s.f_target[i], power[i])]]

\* ship.py 1936-1941
VelocityBoosts(s) ==
    LET v1 == IF s.merkaba_active
              THEN [i \in Dims |-> Scale(s.velocity[i], MERKABA_VELOCITY_BOOST)] ELSE s.velocity
    IN  IF s.tuaoi_mode = "power" THEN [i \in Dims |-> Scale(v1[i], TuaoiRate("power"))] ELSE v1

\* the dimension pairs in the order of the nested loops (ship.py 1558-1559)
Pairs == << <<0, 1>>, <<0, 2>>, <<0, 3>>, <<0, 4>>, <<1, 2>>, <<1, 3>>, <<1, 4>>,
            <<2, 3>>, <<2, 4>>, <<3, 4>> >>

\* variant: a tolerance of 5% of the target ratio
PairNameLoose(fi, fj) ==
    LET hi == Max2(fi, fj)
        lo == Min2(fi, fj)
        hits == {k \in 1..Len(HARMONIC_RATIOS) :
                    20 * Abs(1000 * hi - HARMONIC_RATIOS[k].ratio * lo) < HARMONIC_RATIOS[k].ratio * lo}
    IN  IF lo <= 0 \/ hits = {} THEN "none"
        ELSE HARMONIC_RATIOS[CHOOSE k \in hits : \A m \in hits : k <= m].name

\* ship.py 1560-1575: the first harmonic whose ratio max/min matches within
\* target_ratio * HARMONIC_TOLERANCE, or "none"
PairName(fi, fj) ==
    LET hi == Max2(fi, fj)
        lo == Min2(fi, fj)
        hits == {k \in 1..Len(HARMONIC_RATIOS) :
                    HARMONIC_TOLERANCE.q * Abs(1000 * hi - HARMONIC_RATIOS[k].ratio * lo)
                        < HARMONIC_TOLERANCE.p * HARMONIC_RATIOS[k].ratio * lo}
    IN  IF lo <= 0 \/ hits = {} THEN "none"
        ELSE HARMONIC_RATIOS[CHOOSE k \in hits : \A m \in hits : k <= m].name

RECURSIVE DetectFrom(_, _)
DetectFrom(s, k) ==
    IF k > Len(Pairs) THEN <<>>
    ELSE LET name == PairName(s.r_drive[Pairs[k][1]], s.r_drive[Pairs[k][2]])
         IN  (IF name = "none" THEN <<>> ELSE <<[name |-> name, i |-> Pairs[k][1], j |-> Pairs[k][2]]>>)
             \o DetectFrom(s, k + 1)

detect_harmonic_relationships(s) == DetectFrom(s, 1)

\* variant: a tolerance of 3% in the audio thread
AudioMatchWide(f1, f2, k) ==
    f1 > 0 /\ 100 * Abs(1000 * f2 - HARMONIC_RATIOS[k].ratio * f1) < 3 * HARMONIC_RATIOS[k].ratio * f1

\* audio_system.py 379-391: abs(f2 / f1 - target_ratio) < target_ratio * 0.02
AudioMatch(f1, f2, k) ==
    f1 > 0 /\ 50 * Abs(1000 * f2 - HARMONIC_RATIOS[k].ratio * f1) < HARMONIC_RATIOS[k].ratio * f1

\* audio_system.py 374-391: the first table entry that the ratio f2 / f1 or
\* its inverse matches; the pair is reported as (i, j) or as (j, i)
AudioPair(drive, i, j) ==
    LET hits == {k \in 1..Len(HARMONIC_RATIOS) :
                    AudioMatch(drive[i], drive[j], k) \/ AudioMatch(drive[j], drive[i], k)}
        k == CHOOSE m \in hits : \A n \in hits : m <= n
    IN  IF hits = {} THEN <<>>
        ELSE IF AudioMatch(drive[i], drive[j], k)
        THEN <<[name |-> HARMONIC_RATIOS[k].name, i |-> i, j |-> j]>>
        ELSE <<[name |-> HARMONIC_RATIOS[k].name, i |-> j, j |-> i]>>

RECURSIVE AudioDetectFrom(_, _)
AudioDetectFrom(drive, k) ==
    IF k > Len(Pairs) THEN <<>>
    ELSE AudioPair(drive, Pairs[k][1], Pairs[k][2]) \o AudioDetectFrom(drive, k + 1)

\* AudioSystem.detect_harmonic_pairs
detect_harmonic_pairs(drive) == AudioDetectFrom(drive, 1)

\* ship.py 1598-1605: active_harmonics[key] = (dims, expiry), keys in
\* insertion order
RECURSIVE Refresh(_, _, _)
Refresh(active, detected, expiry) ==
    IF detected = <<>> THEN active
    ELSE LET h == Head(detected)
             hit == {k \in 1..Len(active) :
                        active[k].name = h.name /\ active[k].i = h.i /\ active[k].j = h.j}
         IN  Refresh(IF hit = {}
                     THEN Append(active, [name |-> h.name, i |-> h.i, j |-> h.j, expiry |-> expiry])
                     ELSE [k \in 1..Len(active) |->
                              IF k \in hit THEN [active[k] EXCEPT !.expiry = expiry] ELSE active[k]],
                     Tail(detected), expiry)

\* ship.py 1645-1684: the bonus of one active harmonic (a perfect fifth takes
\* 0.1 s off the dissonance timer); perturb is the draw
\* of random.uniform(-0.2, 0.2)
Bonus(s, h, perturb) ==
    CASE h.name = "octave" ->
           [s EXCEPT !.velocity = [d \in Dims |-> IF d \in {h.i, h.j} THEN Scale(@[d], Rat(11, 10)) ELSE @[d]]]
      [] h.name = "perfect_fifth" ->
           [s EXCEPT !.dissonance_timer = Max2(0, @ - 100)]
      [] h.name = "perfect_fourth" ->
           [s EXCEPT !.resonance_integrity = Min2(1000, @ + 1)]
      [] h.name = "major_sixth" ->
           [s EXCEPT !.resonance_power = [d \in Dims |-> IF d \in {h.i, h.j} THEN @[d] + 50 ELSE @[d]]]
      [] h.name = "tritone" ->
           [s EXCEPT !.velocity = [d \in Dims |-> IF d \in {h.i, h.j} THEN @[d] + perturb ELSE @[d]]]
      [] OTHER -> s

\* ship.py 1640-1684: drop the expired harmonics, apply the others in order
RECURSIVE ApplyActive(_, _, _)
ApplyActive(s, k, perturb) ==
    IF k > Len(s.active_harmonics) THEN s
    ELSE IF s.simulation_time > s.active_harmonics[k].expiry
    THEN ApplyActive([s EXCEPT !.active_harmonics =
                          SubSeq(@, 1, k - 1) \o SubSeq(@, k + 1, Len(@))], k, perturb)
    ELSE ApplyActive(Bonus(s, s.active_harmonics[k], perturb), k + 1, perturb)

SixthCount(s, d) ==
    Cardinality({k \in 1..Len(s.active_harmonics) :
                    s.active_harmonics[k].name = "major_sixth"
                    /\ d \in {s.active_harmonics[k].i, s.active_harmonics[k].j}})

apply_harmonic_bonuses(w, harmonics, perturb) ==
    IF harmonics = <<>> THEN w
    ELSE LET active == Refresh(w.s.active_harmonics, harmonics,
                               w.s.simulation_time + HARMONIC_BONUS_DURATION * 1000)
             s1 == ApplyActive([w.s EXCEPT !.active_harmonics = active], 1, perturb)
         IN  [w EXCEPT !.s = s1,
                       !.a = PlayTimes(w.a, "chime", Len(active) - Len(w.s.active_harmonics)),
                       !.t.sixth = [d \in Dims |-> SixthCount(s1, d)]]

\* ship.py 1953-1956
HarmonicCheck(w, perturb) ==
    IF HARMONIC_DETECTION_INTERVAL.q * (w.s.simulation_time - w.s.last_harmonic_check)
           > HARMONIC_DETECTION_INTERVAL.p * 1000
    THEN [apply_harmonic_bonuses(w, detect_harmonic_relationships(w.s), perturb)
              EXCEPT !.s.last_harmonic_check = w.s.simulation_time,
                     !.t.checked = TRUE,
                     !.t.detected = detect_harmonic_relationships(w.s)]
    ELSE w

\* ship.py 1973-1982
MerkabaCheck(s) ==
    [s EXCEPT !.merkaba_active =
        \A i \in Dims : LevelAbove(s.resonance_levels[i], MERKABA_ACTIVATION_THRESHOLD)]

\* ship.py 2132-2133
Advance(s, dt) ==
    [s EXCEPT !.position =
        [i \in Dims |-> ((@[i] + TruncDiv(s.velocity[i] * dt, 1000) + 100000) % 200000) - 100000]]

\* ship.py 2187-2197: the closest body within get_effective_scan_range(), the
\* first of them in celestial_bodies when several are as close, or None
NearestBody(s) ==
    LET range == IF s.tuaoi_mode = "communication"
                 THEN Scale(INTERACTION_DISTANCE * 10, TuaoiRate("communication"))
                 ELSE INTERACTION_DISTANCE * 10
        near  == {b \in Bodies : DistSq(s.position, CelestialBodies[b].pos) < range * range}
    IN  IF near = {} THEN 0
        ELSE CHOOSE b \in near : \A c \in near :
                 \/ DistSq(s.position, CelestialBodies[b].pos) < DistSq(s.position, CelestialBodies[c].pos)
                 \/ (DistSq(s.position, CelestialBodies[b].pos) = DistSq(s.position, CelestialBodies[c].pos)
                        /\ b <= c)

\* ship.py 2326-2328: nebula_dissonance_enabled is on (ship.py 76)
InNebulaField(s) ==
    /\ s.nearest_body # 0
    /\ CelestialBodies[s.nearest_body].type = "nebula"
    /\ DistSq(s.position, CelestialBodies[s.nearest_body].pos)
         < (NEBULA_DISSONANCE_RADIUS * 10) * (NEBULA_DISSONANCE_RADIUS * 10)

\* ship.py 2329-2345: the targets drift by (random.random() - 0.5) *
\* freq_drift_amount, drawn as drift[i] / 2 of the amount, and are clipped;
\* a nebula of dissonance above 0.6 jitters the velocity the same way
NebulaDissonance(w, dt, drift, jitter) ==
    LET s    == w.s
        body == CelestialBodies[s.nearest_body]
        dist == ISqrt(DistSq(s.position, body.pos))
        near == NEBULA_DISSONANCE_RADIUS * 10 - dist
        full == NEBULA_DISSONANCE_RADIUS * 10 * body.dissonance.q
    IN  IF ~InNebulaField(s) THEN w
        ELSE [w EXCEPT
                !.s.f_target = [i \in Dims |->
                    Clamp(@[i] + TruncDiv(drift[i] * body.dissonance.p * near * 15 * dt * FreqScale,
                                          full * 1000 * 2))],
                !.s.velocity = [i \in Dims |->
                    IF 10 * body.dissonance.p > 6 * body.dissonance.q
                    THEN @[i] + TruncDiv(jitter[i] * body.dissonance.p * near * 500, full * 2)
                    ELSE @[i]],
                !.t.nebula = TRUE]

\* ship.py 2033-2041; turb is the draw of np.random.uniform(-1, 1)
\* variant: the timer is left alone when the mean resonance is not low
DissonanceKeepsTimer(w, dt, turb) ==
    LET since == IF w.s.dissonance_timer = 0 THEN 0 ELSE w.s.low_time
    IN  IF MeanBelow(w.s, DISSONANCE_THRESHOLD)
        THEN IF w.s.dissonance_timer + dt > DISSONANCE_DURATION * 1000
             THEN [w EXCEPT !.s.velocity = [i \in Dims |-> @[i] + turb[i] * 500],
                            !.s.dissonance_timer = 0, !.s.low_time = since + dt,
                            !.t.low = TRUE, !.t.impulse = TRUE]
             ELSE [w EXCEPT !.s.dissonance_timer = @ + dt, !.s.low_time = since + dt, !.t.low = TRUE]
        ELSE w

\* ship.py 2032-2041; low_time is history: the tick time of the ticks with a
\* low mean resonance since dissonance_timer was last zero
Dissonance(w, dt, turb) ==
    LET since == IF w.s.dissonance_timer = 0 THEN 0 ELSE w.s.low_time
    IN  IF MeanBelow(w.s, DISSONANCE_THRESHOLD)
        THEN IF w.s.dissonance_timer + dt > DISSONANCE_DURATION * 1000
             THEN [w EXCEPT !.s.velocity = [i \in Dims |-> @[i] + turb[i] * 500],
                            !.s.dissonance_timer = 0, !.s.low_time = since + dt,
                            !.t.low = TRUE, !.t.impulse = TRUE]
             ELSE [w EXCEPT !.s.dissonance_timer = @ + dt, !.s.low_time = since + dt, !.t.low = TRUE]
        ELSE [w EXCEPT !.s.dissonance_timer = 0, !.s.low_time = 0]

\* ship.py 2063-2070, 2077-2084: a rift near the ship, its looping hum in the
\* pool; offset is the draw of np.random.uniform(-15, 15)
NewRift(w, type, offset) ==
    LET x == w.s.position[0] + offset[0]
        y == w.s.position[1] + offset[1]
    IN  [w EXCEPT !.s.rift_objects = Append(@,
                      [pos |-> Vec(x, y, w.s.position[2] + offset[2], Scale(x, PHI), Scale(y, PHI)),
                       timer |-> RIFT_FADE_TIME * 1000, type |-> type,
                       sound |-> Len(w.a.fx) + 1, last_beep_time |-> w.s.simulation_time]),
                  !.s.rifts = Append(@, Len(w.s.rift_objects) + 1),
                  !.a = Play(w.a, "rift_hum", TRUE)]

\* ship.py 2062-2088: spawn is the pair of the outcome of random.random() <
\* 0.001 with random.choice, and of random.random() < PERFECT_FIFTH_PROB
RiftGeneration(w, draws) ==
    LET w1 == IF draws.spawn[1] # "none" /\ MeanAbove(w.s, RIFT_RESONANCE)
              THEN NewRift(w, draws.spawn[1], draws.offset) ELSE w
    IN  IF draws.spawn[2] /\ \A i \in Dims :
               PERFECT_FIFTH_TOLERANCE.q * Abs(w.s.r_drive[i] - w.s.f_target[i])
                   < PERFECT_FIFTH_TOLERANCE.p * FreqScale
        THEN NewRift(w1, "perfect_fifth", draws.offset) ELSE w1

\* ship.py 2093-2109: the rift's time is up
RiftFades(w, rift) ==
    LET w1 == IF rift = w.s.locked_rift
              THEN [w EXCEPT !.s.locked_rift = 0, !.s.locked_target = 0, !.s.locked_is_rift = FALSE,
                             !.s.lock_sound = 0,
                             !.s.lock_log = Append(@, "fade"),
                             !.a = GuardedRemove(w.a, w.s.lock_sound)]
              ELSE w
    IN  [w1 EXCEPT !.a = GuardedRemove(@, w.s.rift_objects[rift].sound),
                   !.t.faded = @ \cup {rift}]

\* variant: the timer only runs down
RiftStaysPlain(w, rift, dt, draws) ==
    LET s  == w.s
        w2 == IF rift = s.locked_rift
                 /\ s.simulation_time - s.rift_objects[rift].last_beep_time > draws.interval
              THEN [w EXCEPT !.s.rift_objects[rift].last_beep_time = s.simulation_time,
                             !.a = Play(@, "rift_beep", FALSE)]
              ELSE w
    IN  IF /\ DistSq(s.position, s.rift_objects[rift].pos)
                < (RIFT_ALIGNMENT_TOLERANCE * 10) * (RIFT_ALIGNMENT_TOLERANCE * 10)
           /\ ~MeanAbove(s, RIFT_ENTRY_RES_THRESHOLD)
        THEN [w2 EXCEPT !.s.velocity = [i \in Dims |-> @[i] + draws.rjitter[i] * 500]]
        ELSE w2

\* ship.py 2110-2127: a rift that stays; interval is 2.0 - 1.8 *
\* centered_factor, which follows the view rotation, drawn from its range
RiftStays(w, rift, dt, draws) ==
    LET s  == w.s
        w1 == IF MeanAbove(s, RIFT_RESONANCE)
              THEN [w EXCEPT !.s.rift_objects[rift].timer = @ + Scale(dt, PHI)] ELSE w
        w2 == IF rift = s.locked_rift
                 /\ s.simulation_time - s.rift_objects[rift].last_beep_time > draws.interval
              THEN [w1 EXCEPT !.s.rift_objects[rift].last_beep_time = s.simulation_time,
                              !.a = Play(@, "rift_beep", FALSE)]
              ELSE w1
    IN  IF /\ DistSq(s.position, s.rift_objects[rift].pos)
                < (RIFT_ALIGNMENT_TOLERANCE * 10) * (RIFT_ALIGNMENT_TOLERANCE * 10)
           /\ ~MeanAbove(s, RIFT_ENTRY_RES_THRESHOLD)
        THEN [w2 EXCEPT !.s.velocity = [i \in Dims |-> @[i] + draws.rjitter[i] * 500]]
        ELSE w2

\* ship.py 2091-2129: every rift of the list in turn, then the deletions
RECURSIVE RiftLoop(_, _, _, _)
RiftLoop(w, k, dt, draws) ==
    IF k > Len(w.s.rifts)
    THEN [w EXCEPT !.s.rifts = SelectSeq(@, LAMBDA r : r \notin w.t.faded)]
    ELSE LET rift == w.s.rifts[k]
         IN  Then([w EXCEPT !.s.rift_objects[rift].timer = @ - dt], LAMBDA w1 :
             Then(IF w1.s.rift_objects[rift].timer <= 0
                  THEN RiftFades(w1, rift) ELSE RiftStays(w1, rift, dt, draws), LAMBDA w2 :
             RiftLoop(w2, k + 1, dt, draws)))

\* ship.py 2136-2153: the charge runs down and the ship enters the locked
\* rift; nudge is the sign of angle - 90, or 0 within the alignment angle
RiftCharge(w, dt, draws) ==
    IF w.s.rift_charge_timer <= 0 THEN w
    ELSE LET w1 == [w EXCEPT !.s.rift_charge_timer = @ - dt]
             w2 == [w1 EXCEPT !.s.position[1] = @ + (draws.nudge * 2 * dt) \div 10,
                              !.s.position[2] = @ + Scale((draws.nudge * 2 * dt) \div 10, PHI)]
         IN  IF w.s.locked_rift = 0 THEN w1
             ELSE IF MeanBelow(w.s, RIFT_ENTRY_RES_THRESHOLD)
             THEN [w2 EXCEPT !.s.rift_charge_timer = 0]
             ELSE IF w2.s.rift_charge_timer <= 0
             THEN enter_rift(w2, w.s.locked_rift, draws.warp)
             ELSE w2

\* the locals of the last tick (history)
NullTick ==
    [kind |-> "none", dt |-> 0, delta_f |-> ZeroVec, width |-> ZeroVec,
     level |-> [i \in Dims |-> ZeroLevel], velocity |-> ZeroVec,
     power_before |-> ZeroVec, sixth |-> ZeroVec,
     res |-> [i \in Dims |-> Rat(0, 1)], auto |-> "none",
     dir |-> ZeroVec, norm_sq |-> 0, lock_sound |-> 0,
     nebula |-> FALSE, targets |-> ZeroVec,
     low |-> FALSE, impulse |-> FALSE, faded |-> {},
     checked |-> FALSE, detected |-> <<>>,
     landing |-> "none", integrity_before |-> 0, raised |-> FALSE]

\* ship.py 1817-1825
LandedTick(w, dt, drift) ==
    LET targets == LandedTargets(w.s, dt, drift)
        levels  == [i \in Dims |-> ResonanceLevel(w.s.r_drive[i] - targets[i], w.s.resonance_width)]
    IN  [w EXCEPT !.s.velocity = ZeroVec, !.s.f_target = targets, !.s.resonance_levels = levels,
                  !.t.kind = "landed", !.t.level = levels,
                  !.t.delta_f = [i \in Dims |-> w.s.r_drive[i] - targets[i]],
                  !.t.width = [i \in Dims |-> w.s.resonance_width]]

\* ship.py 1827-2133
\* ship.py 2001-2002: the healing mode of the Tuaoi crystal
TuaoiHealing(w, dt) ==
    IF w.s.tuaoi_mode = "healing"
    THEN [w EXCEPT !.s.resonance_integrity =
                       Min2(1000, @ + TruncDiv(dt * TuaoiRate("healing").p, TuaoiRate("healing").q))]
    ELSE w

\* ship.py 2198-2202
NearObject(s) ==
    IF s.nearest_body # 0 /\ ~s.near_object THEN [s EXCEPT !.near_object = TRUE]
    ELSE IF s.nearest_body = 0 /\ s.near_object THEN [s EXCEPT !.near_object = FALSE]
    ELSE s

\* random.uniform(*FREQUENCY_RANGE) draws of Ship.__init__ (ship.py 40-41)
Drive0 == Vec(Hz(300), Hz(500), Hz(440), Hz(450), Hz(750))

\* generate_crystals: two regular crystals on the golden spiral
CrystalPositions == << <<0, 0>>, <<-567, -519>> >>

CrystalFreqs == << Drive0, Vec(Hz(250), Hz(600), Hz(700), Hz(350), Hz(500)) >>

\* ship.py 374-378: crystal i at the radius FIB_SEQ[i % 8] * SCALE_FACTOR / 10
\* and the angle i * 2 * pi * PHI, in 1/1000 grid square; FIB_SEQ is
\* 0, 1, 1, 2, 3, 5, 8, 13, so the ninth crystal is at radius 0 again
GoldenSpiral ==
    << <<0, 0>>, <<-567, -519>>, <<67, 766>>, <<936, -1220>>, <<-2272, 401>>,
       <<3245, 2064>>, <<-1597, -5942>>, <<-4609, 8874>>, <<0, 0>>, <<-711, -293>> >>

\* ship.py 355-362: the centre and a hexagon of radius SCALE_FACTOR / 10
SeedOfLife ==
    << <<0, 0>>, <<769, 0>>, <<384, 666>>, <<-384, 666>>, <<-769, 0>>, <<-384, -666>>, <<384, -666>> >>

\* ship.py 363-372: two squares, of radius SCALE_FACTOR / 10 and PHI times it
Merkaba ==
    << <<543, 543>>, <<-543, 543>>, <<-543, -543>>, <<543, -543>>,
       <<1244, 0>>, <<0, 1244>>, <<-1244, 0>>, <<0, -1244>> >>

\* crystal_count as int(base_count * crystal_mult) makes it: 1 on a small
\* planet, 9 from a base count of 8 on a super earth
CrystalCounts == {1, 2, 9}

\* the positions of the crystal_count crystals (ship.py 354-380)
CrystalLayout(count) ==
    IF count = 7 THEN SeedOfLife
    ELSE IF count = 8 THEN Merkaba
    ELSE [i \in 1..count |-> GoldenSpiral[i]]

\* the frequencies drawn for the crystals (ship.py 392-394): the second as
\* in CrystalFreqs, the others within a third of a Hz of Drive0
CrystalFreqDraw(count) ==
    [k \in 1..count |-> IF k = 2 THEN CrystalFreqs[2] ELSE [i \in Dims |-> Drive0[i] + (k % 3)]]

\* generate_crystals (ship.py 320-413): the crystals of the planet, its biome
\* drawn, the biome sound in place of the last one
generate_crystals(w, biome, count) ==
    LET a1 == GuardedRemove(w.a, w.s.biome_sound)
    IN  [w EXCEPT !.s = Speak([w.s EXCEPT !.crystal_positions = CrystalLayout(count),
                                          !.crystal_freqs = CrystalFreqDraw(count),
                                          !.locked_crystals = {},
                                          !.planet_biome = biome,
                                          !.biome_sound = Len(a1.fx) + 1],
                              IF biome = "harmonic" THEN "Anchored on harmonic biome planet."
                              ELSE "Anchored on dissonant biome planet."),
                  !.a = Play(a1, IF biome = "harmonic" THEN "chord" ELSE "dissonant", TRUE)]

LowIntegrity(s) ==
    IF s.resonance_integrity < 500 THEN Speak(s, "Warning: Low integrity. Repair needed.") ELSE s

\* ship.py 2382-2393: the countdown is over and the conditions are not met;
\* with no body in range nearest_body is None and nearest_body.get raises
LandingFails(w) ==
    LET s1 == [w.s EXCEPT !.resonance_integrity = @ - 100]
        w1 == [w EXCEPT !.t.integrity_before = w.s.resonance_integrity]
    IN  IF s1.nearest_body # 0 /\ CelestialBodies[s1.nearest_body].type # "planet"
        THEN [w1 EXCEPT !.s = LowIntegrity(Speak(s1, "Cannot anchor on this celestial body.")),
                        !.t.landing = "failed"]
        ELSE IF s1.nearest_body = 0
        THEN [w1 EXCEPT !.s = s1, !.t.landing = "failed", !.t.raised = TRUE]
        ELSE [w1 EXCEPT !.s = LowIntegrity(Speak(s1,
                                 IF Difficulty(s1.exoplanet_type).p > Difficulty(s1.exoplanet_type).q
                                 THEN "Anchoring failed. This world requires exceptionally high harmonic alignment. Integrity reduced."
                                 ELSE "Anchoring failed due to dissonance. Integrity reduced.")),
                        !.t.landing = "failed"]

\* ship.py 2367-2393: the landing countdown
Landing(w, dt, biome, count) ==
    IF w.s.landing_timer <= 0 THEN w
    ELSE IF w.s.landing_timer - dt > 0 THEN [w EXCEPT !.s.landing_timer = @ - dt]
    ELSE LET w1 == [w EXCEPT !.s.landing_timer = @ - dt]
         IN  IF LandingConditions(w1.s)
             THEN generate_crystals([w1 EXCEPT !.s.landed_mode = TRUE, !.t.landing = "landed"],
                                    biome, count)
             ELSE LandingFails(w1)

\* ship.py 2395-2398
Autosave(w) ==
    IF w.s.autosave_enabled /\ w.s.simulation_time - w.s.last_autosave_time > AUTOSAVE_INTERVAL * 1000
    THEN [save_game(w) EXCEPT !.s.last_autosave_time = w.s.simulation_time]
    ELSE w

FlightTick(w, dt, perturb, draws) ==
    Then([w EXCEPT !.s.f_target = FlightTargets(w.s), !.t.kind = "flight",
                   !.t.targets = FlightTargets(w.s)], LAMBDA w0 :
    Then(Autopilot(w0), LAMBDA w1 :
    Then(ResonanceLoop(w1, dt), LAMBDA w2 :
    Then([w2 EXCEPT !.s.velocity = VelocityBoosts(w2.s)], LAMBDA w3 :
    Then(TuaoiHealing(HarmonicCheck(w3, perturb), dt), LAMBDA w4 :
    Then([w4 EXCEPT !.s = MerkabaCheck(w4.s)], LAMBDA w5 :
    Then(Dissonance(w5, dt, draws.turb), LAMBDA w6 :
    Then([w6 EXCEPT !.s.prev_resonance_levels = w6.s.resonance_levels], LAMBDA w7 :
    Then(RiftGeneration(w7, draws), LAMBDA w8 :
    Then(RiftLoop(w8, 1, dt, draws), LAMBDA w9 :
    Then([w9 EXCEPT !.s = Advance(w9.s, dt)], LAMBDA w10 :
    Then(RiftCharge(w10, dt, draws), LAMBDA w11 :
    Then([w11 EXCEPT !.s = NearObject([w11.s EXCEPT !.nearest_body = NearestBody(w11.s)])], LAMBDA w12 :
    Then(NebulaDissonance(w12, dt, draws.drift, draws.jitter), LAMBDA w13 :
    Then(Landing(w13, dt, draws.biome, draws.count), LAMBDA w14 :
    IF w14.t.raised THEN w14 ELSE Autosave(w14))))))))))))))))

\* Ship.update; idle_elapsed says whether time.time() - last_input_time has
\* passed IDLE_TIME_THRESHOLD
\* check_temple_proximity (ship.py 1352-1405) for the Halls of Amenti;
\* at_amenti stands for the Halls within scan range, all twelve keys held and
\* an enlightened consciousness. The minor temples write no modelled field
check_temple_proximity(s) ==
    IF ~s.at_amenti \/ s.simulation_time - s.last_temple_check < 1000 THEN s
    ELSE IF s.visited_amenti THEN [s EXCEPT !.last_temple_check = s.simulation_time]
    ELSE Speak([s EXCEPT !.visited_amenti = TRUE, !.resonance_width = Scale(@, PHI),
                         !.last_temple_check = s.simulation_time],
               "The Halls of Amenti open before you. Ancient wisdom floods your consciousness.")

update(w, dt, idle_elapsed, drift, perturb, draws) ==
    LET w0 == [w EXCEPT !.t = [NullTick EXCEPT !.dt = dt, !.power_before = w.s.resonance_power]]
    IN  IF w.s.hud_mode \/ w.s.upgrade_mode \/ w.s.starmap_mode \/ w.s.rift_selection_mode
        THEN [w0 EXCEPT !.t.kind = "menu"]
        ELSE Then(IdleStep([w EXCEPT !.t = [NullTick EXCEPT !.dt = dt, !.power_before = w.s.resonance_power],
                                     !.s = [check_temple_proximity(w.s)
                                               EXCEPT !.idle_mode = @ \/ idle_elapsed]]), LAMBDA w1 :
                 IF w1.s.landed_mode THEN LandedTick(w1, dt, drift)
                 ELSE FlightTick(w1, dt, perturb, draws))

\* ------------------------------------------------------------ initial states
\* random.uniform(*FREQUENCY_RANGE) draws of Ship.__init__ (ship.py 40-41)
Base0 == Vec(Hz(440), Hz(440), Hz(440), Hz(440), Hz(600))

\* the levels as the last flight tick left them
Settled(s) ==
    LET levels == [i \in Dims |-> ResonanceLevel(s.r_drive[i] - s.f_target[i],
                                                 EffectiveWidth(s.resonance_width, s.tuaoi_mode, i))]
    IN  [s EXCEPT !.resonance_levels = levels, !.prev_resonance_levels = levels]

\* just constructed (Ship.__init__, AudioSystem.__init__)
NewGame == [s |-> Ship(Drive0, Base0), a |-> NewAudio]

\* ten seconds into a flight in resonance tuning mode (J) and transcendence
\* mode (G), dimension 3 selected and tuned to 0.81, its power past the chord
\* threshold
Cruise ==
    [s |-> Settled([Ship(Vec(Hz(440), Hz(440), Hz(440) + (29 * FreqScale) \div 6, Hz(450), Hz(550)), Base0)
               EXCEPT !.simulation_time = 10000, !.last_harmonic_check = 9490,
                      !.tuning_mode = TRUE, !.selected_dim = 2,
                      !.tuaoi_mode = "transcendence", !.tuaoi_mode_index = 5, !.last_tuaoi_switch = 6000,
                      !.resonance_power = Vec(2000, 0, 4500, 0, 0), !.recent_input = FALSE]),
     a |-> NewAudio]

\* locked on the planet from the starmap, with the looping lock beep playing
Locked(position, mode, index) ==
    [s |-> Settled([Ship(Base0, Base0)
               EXCEPT !.simulation_time = 10000, !.last_harmonic_check = 9990,
                      !.position = position, !.locked_target = 2, !.lock_sound = 1,
                      !.tuaoi_mode = mode, !.tuaoi_mode_index = index, !.last_tuaoi_switch = 6000]),
     a |-> Play(NewAudio, "beep", TRUE)]

ApproachNear ==
    Locked([i \in Dims |-> CelestialBodies[2].pos[i] - Vec(4000, 0, 0, 3000, 0)[i]], "transcendence", 5)

ApproachFar == Locked(ZeroVec, "navigation", 1)

\* anchored on the planet after the landing sequence; the power built up in
\* flight is still there
Landed(biome, wf, crystals) ==
    [s |-> [Settled(Ship(Drive0, Base0))
               EXCEPT !.simulation_time = 10000, !.last_harmonic_check = 9990,
                      !.position = CelestialBodies[2].pos,
                      !.landed_mode = TRUE, !.planet_biome = biome, !.biome_sound = 1,
                      !.crystal_positions = CrystalPositions, !.crystal_freqs = CrystalFreqs,
                      !.crystals_collected = crystals,
                      !.resonance_power = Vec(0, 0, 4500, 2000, 0)],
     a |-> Play(NewAudio, wf, TRUE)]

Scenarios ==
    { NewGame, Cruise, ApproachNear, ApproachFar,
      Landed("harmonic", "chord", 0),
      Landed("dissonant", "dissonant", ASCENSION_CRYSTAL_THRESHOLD - 1) }

\* -------------------------------------------------------------------- state
VARIABLES
    ship,       \* the Ship object
    audio,      \* the AudioSystem's sound pool
    tick,       \* locals of the last Ship.update (history)
    frame,      \* the frame loop: frames done, phase, this frame's dt, ...
    cb          \* the audio callback thread: position and locals

vars == <<ship, audio, tick, frame, cb>>

World == [s |-> ship, a |-> audio, t |-> tick]

\* clock.tick(FPS): a normal frame and a long one, ms
Dts == {17, 600}

HeldKeys == {"up", "down", "w", "s", "a", "d", "pageup", "pagedown"}

TapKeys == {"j", "g", "z", "m", "return", "t", "h", "x", "f", "u", "p"}

Slots == {1, 4}

Inputs ==
    {Key("none", {})} \cup {Key(k, {k}) : k \in HeldKeys} \cup {Key(k, {}) : k \in TapKeys}
    \cup {Digit(slot, mod) : slot \in Slots, mod \in {"none", "ctrl", "shift"}}

\* the draws of random.uniform in a landed tick and in the tritone bonus
Drifts == {ZeroVec, Vec(1, 1, 1, 1, 1), Vec(-1, -1, -1, -1, -1), Vec(1, -1, 1, -1, 1)}

Perturbs == {-200, 0, 200}

\* detected pitches, in Hz: none, below the range, in the range
Pitches == {0, 150, 523}

IdleCb == [pc |-> "idle", n |-> 0, frames |-> 0, raised |-> FALSE,
           detect |-> ZeroVec, synth |-> ZeroVec, intermod |-> ZeroVec,
           chord_effects |-> <<>>, snapshot |-> <<>>, pairs |-> <<>>]

InitWith(S) ==
    /\ \E sc \in S : ship = sc.s /\ audio = sc.a
    /\ tick = NullTick
    /\ frame = [n |-> 0, phase |-> "input", dt |-> 0, pitches |-> 0,
                universe |-> FirstUniverse, generated |-> 1]
    /\ cb = IdleCb

\* main.update_loop up to and including ship.handle_input
InputStep(inputs, max) ==
    /\ frame.phase = "input"
    /\ frame.n < max
    /\ \E dt \in Dts, inp \in inputs :
         \E w0 \in {[World EXCEPT !.s.simulation_time = @ + dt]} : \E w \in {handle_input(w0, inp)} :
             /\ ship' = w.s
             /\ audio' = w.a
             /\ frame' = [frame EXCEPT !.phase = "update", !.dt = dt]
    /\ UNCHANGED <<tick, cb>>

\* a nebula close enough for the ship to be in its field after this tick
NearNebula(s) ==
    \E b \in Bodies :
        /\ CelestialBodies[b].type = "nebula"
        /\ DistSq(s.position, CelestialBodies[b].pos)
             < (NEBULA_DISSONANCE_RADIUS * 20) * (NEBULA_DISSONANCE_RADIUS * 20)

\* np.random.uniform(-15, 15) of a new rift and np.random.uniform(-20, 20) *
\* PHI of enter_rift
RiftOffsets == {Vec(3000, 4000, 0, 0, 0)}

Warps == {Vec(16180, -32360, 8090, 0, -16180)}

\* the random draws of a flight tick: nebula drift and jitter (ship.py 2337,
\* 2344), dissonance turbulence (2037), rift generation (2062-2066, 2076),
\* rift turbulence (2126), beep interval (2120), charge nudge (2144) and the
\* warp of enter_rift (1711); a draw the tick cannot use is not varied
FlightDraws(s, dt, spawns) ==
    LET nebula  == ~s.landed_mode /\ NearNebula(s)
        charge  == s.rift_charge_timer > 0 /\ s.locked_rift # 0
        room    == ~s.landed_mode /\ Len(s.rift_objects) < MaxRifts
        close   == \E k \in 1..Len(s.rifts) :
                       DistSq(s.position, s.rift_objects[s.rifts[k]].pos)
                           < (RIFT_ALIGNMENT_TOLERANCE * 20) * (RIFT_ALIGNMENT_TOLERANCE * 20)
        beeping == /\ s.locked_rift # 0
                   /\ s.simulation_time - s.rift_objects[s.locked_rift].last_beep_time > 200
                   /\ s.simulation_time - s.rift_objects[s.locked_rift].last_beep_time <= 2000
    IN  [drift    : IF nebula THEN Drifts ELSE {ZeroVec},
         jitter   : IF nebula THEN {ZeroVec, Vec(1, -1, 1, -1, 1)} ELSE {ZeroVec},
         turb     : IF s.dissonance_timer + dt > DISSONANCE_DURATION * 1000 THEN Drifts ELSE {ZeroVec},
         spawn    : IF room THEN spawns ELSE {<<"none", FALSE>>},
         offset   : IF room /\ spawns # {<<"none", FALSE>>} THEN RiftOffsets ELSE {ZeroVec},
         rjitter  : IF close THEN {ZeroVec, Vec(1, -1, 1, -1, 1)} ELSE {ZeroVec},
         interval : IF beeping THEN {200, 2000} ELSE {2000},
         nudge    : IF charge THEN {-1, 0, 1} ELSE {0},
         warp     : IF charge THEN Warps ELSE {ZeroVec},
         biome    : IF s.landing_timer > 0 /\ s.landing_timer <= dt
                    THEN {"harmonic", "dissonant"} ELSE {"harmonic"},
         count    : IF s.landing_timer > 0 /\ s.landing_timer <= dt THEN CrystalCounts ELSE {1}]

\* main.py 159-176: with needs_universe_regeneration set, the lists of the
\* ship replace those of the loop if ship.stars is not empty, otherwise a new
\* universe is generated and the ship refers to it
Regenerated(s, f) ==
    IF ~s.needs_universe_regeneration THEN [s |-> s, f |-> f]
    ELSE IF s.stars.n > 0
    THEN [s |-> [s EXCEPT !.needs_universe_regeneration = FALSE],
          f |-> [f EXCEPT !.universe = s.stars]]
    ELSE [s |-> [s EXCEPT !.needs_universe_regeneration = FALSE,
                          !.stars = Universe("this", f.generated + 1)],
          f |-> [f EXCEPT !.universe = Universe("this", f.generated + 1), !.generated = @ + 1]]

\* main.update_loop from ship.update on: the tick, the regeneration of the
\* universe and the periodic click (pygame.time.get_ticks() > next_click_time)
TickWith(spawns) ==
    /\ frame.phase = "update"
    /\ \E idle_elapsed \in (IF ship.recent_input THEN {FALSE} ELSE BOOLEAN),
          drift \in (IF ship.landed_mode THEN Drifts ELSE {ZeroVec}),
          perturb \in (IF ship.landed_mode THEN {0} ELSE Perturbs),
          click \in (IF ship.landed_mode THEN {FALSE} ELSE BOOLEAN),
          draws \in FlightDraws(ship, frame.dt, spawns) :
         \E w0 \in {World} : \E w \in {update(w0, frame.dt, idle_elapsed, drift, perturb, draws)} :
             /\ ship' = IF w.t.raised THEN w.s ELSE Regenerated(w.s, frame).s
             /\ audio' = IF click /\ ~w.t.raised /\ ~w.s.landed_mode
                         THEN Play(w.a, "click", FALSE) ELSE w.a
             /\ tick' = w.t
             /\ frame' = [(IF w.t.raised THEN frame ELSE Regenerated(w.s, frame).f)
                             EXCEPT !.phase = IF w.t.raised THEN "crashed" ELSE "input", !.n = @ + 1]
    /\ UNCHANGED cb

SimInput == InputStep(Inputs, MaxFrames)

\* no rift appears
TickStep == TickWith({<<"none", FALSE>>})

SimTick == TickStep

\* continuous_pitch_detection: the while test
PitchCheck ==
    /\ ship.pitch_thread = "check"
    /\ ship' = [ship EXCEPT !.pitch_thread = IF ship.sing_active THEN "detect" ELSE "dead"]
    /\ UNCHANGED <<audio, tick, frame, cb>>

\* the outcome of detect_pitch when sd.rec or the FFT raises
MicFailure == -1

PitchFailureText == "No microphone detected or error in pitch detection."

\* variant: detect_pitch lets the exception through and the thread ends
PitchLoopUncaught(s, pitch) ==
    IF pitch = MicFailure THEN [s EXCEPT !.pitch_thread = "dead"]
    ELSE IF pitch # 0 /\ FREQUENCY_MIN <= pitch /\ pitch <= FREQUENCY_MAX
    THEN Speak([s EXCEPT !.pitch_thread = "check", !.r_drive[s.selected_dim] = Hz(pitch)],
               "Tuned to hummed pitch 523.00 Hz.")
    ELSE [s EXCEPT !.pitch_thread = "check"]

\* one round of continuous_pitch_detection (ship.py 418-425) with detect_pitch
\* (433-446): a failure is caught, spoken and returned as None
PitchLoop(s, pitch) ==
    IF pitch = MicFailure THEN Speak([s EXCEPT !.pitch_thread = "check"], PitchFailureText)
    ELSE IF pitch # 0 /\ FREQUENCY_MIN <= pitch /\ pitch <= FREQUENCY_MAX
    THEN Speak([s EXCEPT !.pitch_thread = "check", !.r_drive[s.selected_dim] = Hz(pitch)],
               "Tuned to hummed pitch 523.00 Hz.")
    ELSE [s EXCEPT !.pitch_thread = "check"]

\* continuous_pitch_detection: detect_pitch returns and the drive is set
PitchDetectFrom(pitches, max) ==
    /\ ship.pitch_thread = "detect"
    /\ frame.pitches < max
    /\ \E pitch \in pitches : ship' = PitchLoop(ship, pitch)
    /\ frame' = [frame EXCEPT !.pitches = @ + 1]
    /\ UNCHANGED <<audio, tick, cb>>

PitchDetectUpTo(max) == PitchDetectFrom(Pitches, max)

PitchDetect == PitchDetectUpTo(MaxPitches)

Init == InitWith(Scenarios)

Next == SimInput \/ SimTick \/ PitchCheck \/ PitchDetect

Spec == Init /\ [][Next]_vars

\* ------------------------------------------------------------ audio callback
\* frames per callback: the stream is opened without a blocksize
FrameCounts == {40, 64}

\* audio_system.py 408-421: a callback starts and detect_harmonic_pairs reads
\* the drive frequencies (audio_system.py 376-377)
CbDetect ==
    /\ cb.pc = "idle"
    /\ cb.n < MaxCallbacks
    /\ \E frames \in FrameCounts :
         cb' = [cb EXCEPT !.pc = "synth", !.frames = frames, !.detect = ship.r_drive,
                          !.pairs = detect_harmonic_pairs(ship.r_drive)]
    /\ UNCHANGED <<ship, audio, tick, frame>>

\* audio_system.py 424-430: oscillator synthesis reads the drive again
CbSynth ==
    /\ cb.pc = "synth"
    /\ cb' = [cb EXCEPT !.pc = "intermod", !.synth = ship.r_drive]
    /\ UNCHANGED <<ship, audio, tick, frame>>

\* audio_system.py 461-463: intermodulation reads the drive of every pair
\* found at detection
CbIntermod ==
    /\ cb.pc = "intermod"
    /\ cb' = [cb EXCEPT !.pc = "chord",
                        !.intermod = IF cb.pairs # <<>>
                                     THEN ship.r_drive ELSE cb.synth]
    /\ UNCHANGED <<ship, audio, tick, frame>>

\* audio_system.py 488-490
PowerCondition ==
    /\ ~ship.landed_mode
    /\ \E i \in Dims : ship.resonance_power[i] > (POWER_BUILD_TIME - 1) * 1000

\* audio_system.py 491
ChordEffects ==
    SelectSeq(audio.active_sound_effects, LAMBDA e : audio.fx[e].waveform = "chord")

\* audio_system.py 488-495: the power chord is started, or the chord effects
\* found are queued for removal
CbChord ==
    /\ cb.pc = "chord"
    /\ IF PowerCondition
       THEN /\ audio' = IF ChordEffects = <<>> THEN Play(audio, "chord", FALSE) ELSE audio
            /\ cb' = [cb EXCEPT !.pc = "mix", !.chord_effects = <<>>]
       ELSE /\ audio' = audio
            /\ cb' = [cb EXCEPT !.pc = IF ChordEffects = <<>> THEN "mix" ELSE "remove",
                                !.chord_effects = ChordEffects]
    /\ UNCHANGED <<ship, tick, frame>>

\* audio_system.py 496-497: active_sound_effects.remove(e), a ValueError if
\* e is no longer in the list
CbChordRemove ==
    /\ cb.pc = "remove"
    /\ LET e == Head(cb.chord_effects)
       IN  IF InPool(audio, e)
           THEN /\ audio' = PoolRemove(audio, e, "chord")
                /\ cb' = [cb EXCEPT !.chord_effects = Tail(@),
                                    !.pc = IF Len(cb.chord_effects) = 1 THEN "mix" ELSE "remove"]
           ELSE /\ audio' = audio
                /\ cb' = [cb EXCEPT !.pc = "dead", !.raised = TRUE]
    /\ UNCHANGED <<ship, tick, frame>>

\* audio_system.py 508: the copy of the list the mixing loop iterates over
CbMixSnapshot ==
    /\ cb.pc = "mix"
    /\ cb' = IF audio.active_sound_effects = <<>>
             THEN [cb EXCEPT !.pc = "idle", !.n = @ + 1, !.snapshot = <<>>]
             ELSE [cb EXCEPT !.pc = "effect", !.snapshot = audio.active_sound_effects]
    /\ UNCHANGED <<ship, audio, tick, frame>>

\* variant: the position stops at the end of the buffer
MixedClamped(effect, frames) ==
    IF effect.position < WaveLen(effect.waveform)
    THEN [effect EXCEPT !.position = Min2(@ + frames, WaveLen(effect.waveform)),
                        !.total = @ + frames, !.plays = @ + 1, !.last = frames]
    ELSE effect

\* audio_system.py 509-517: effect.position += frames (with the history)
Mixed(effect, frames) ==
    IF effect.position < WaveLen(effect.waveform)
    THEN [effect EXCEPT !.position = @ + frames, !.total = @ + frames, !.plays = @ + 1,
                        !.last = frames]
    ELSE effect

\* audio_system.py 518-520
Wrapped(effect) ==
    IF effect.position >= WaveLen(effect.waveform) /\ effect.loop
    THEN [effect EXCEPT !.position = 0] ELSE effect

\* audio_system.py 509-522: one iteration of the mixing loop; the callback
\* returns after the last one
CbMixEffect ==
    /\ cb.pc = "effect"
    /\ LET e == Head(cb.snapshot)
           mixed == Mixed(audio.fx[e], cb.frames)
           a1 == [audio EXCEPT !.fx[e] = Wrapped(mixed)]
           rest == [cb EXCEPT !.snapshot = Tail(@),
                              !.pc = IF Len(cb.snapshot) = 1 THEN "idle" ELSE "effect",
                              !.n = IF Len(cb.snapshot) = 1 THEN @ + 1 ELSE @]
       IN  IF mixed.position >= WaveLen(mixed.waveform) /\ ~mixed.loop
           THEN IF InPool(a1, e)
                THEN audio' = PoolRemove(a1, e, "mix") /\ cb' = rest
                ELSE audio' = a1 /\ cb' = [cb EXCEPT !.pc = "dead", !.raised = TRUE]
           ELSE audio' = a1 /\ cb' = rest
    /\ UNCHANGED <<ship, tick, frame>>

AudioInputs == {Key("none", {}), Key("t", {}), Key("x", {}), Key("up", {"up"})}

AudioScenarios ==
    { NewGame, Cruise, ApproachNear,
      Landed("harmonic", "chord", 0),
      Landed("dissonant", "dissonant", ASCENSION_CRYSTAL_THRESHOLD - 1) }

AudioSimInput == InputStep(AudioInputs, MaxAudioFrames)

InitAudio == InitWith(AudioScenarios)

NextAudio ==
    \/ AudioSimInput \/ SimTick
    \/ CbDetect \/ CbSynth \/ CbIntermod \/ CbChord \/ CbChordRemove \/ CbMixSnapshot \/ CbMixEffect

SpecAudio == InitAudio /\ [][NextAudio]_vars

\* ------------------------------------------------------------------ claims
Ticked == tick.kind \in {"flight", "landed"}

\* C1: the level a tick computes for a dimension, from the distance delta_f
\* between drive and target and the width the tick uses for that dimension,
\* lies in (0, 1], is 1 exactly when drive equals target, is exactly 1/2 when
\* |delta_f| equals the width, and is strictly smaller for the dimension that
\* is further from its target (at equal width), and than the level of any
\* nearer distance.
C1_LevelCurve ==
    Ticked =>
        \A i \in Dims :
            LET level == tick.level[i]
                delta == Abs(tick.delta_f[i])
            IN  /\ 0 < level.n /\ level.n <= level.d
                /\ (level.n = level.d) <=> (delta = 0)
                /\ (delta = tick.width[i]) => (2 * level.n = level.d)
                /\ \A j \in Dims :
                       (tick.width[j] = tick.width[i] /\ Abs(tick.delta_f[j]) < delta)
                           => (tick.level[j].n = level.n /\ tick.level[j].d < level.d)
                /\ \A nearer \in {0, delta \div 2, delta - 1} :
                       (0 <= nearer /\ nearer < delta)
                           => ResonanceLevel(nearer, tick.width[i]).d < level.d

\* a flight tick that saw a drive on its target, one exactly one width away
\* and one much further away
C1_Witness ==
    /\ tick.kind = "flight"
    /\ \E i, j, k \in Dims :
         /\ tick.delta_f[i] = 0 /\ ship.resonance_levels[i].n = ship.resonance_levels[i].d
         /\ Abs(tick.delta_f[j]) = tick.width[j] /\ 2 * tick.level[j].n = tick.level[j].d
         /\ Abs(tick.delta_f[k]) > 10 * tick.width[k]

\* C2: every drive frequency lies within FREQUENCY_RANGE, [200, 800] Hz, in
\* every reachable state.
C2_DriveInRange ==
    \A i \in Dims : Hz(FREQUENCY_MIN) <= ship.r_drive[i] /\ ship.r_drive[i] <= Hz(FREQUENCY_MAX)

\* C3, as stated: after every tick, flight or landed, the power of a dimension
\* whose level is above 0.8 has not decreased, and the power of a dimension
\* whose level is at or below 0.8 is exactly 0.
C3_PowerResetsEveryTick ==
    Ticked =>
        \A i \in Dims :
            IF LevelAbove(tick.level[i], POWER_BUILD_THRESHOLD)
            THEN ship.resonance_power[i] >= tick.power_before[i]
            ELSE ship.resonance_power[i] = 0

\* C3, amended: a flight tick sets the power of a dimension to its previous
\* value plus dt when the level is above 0.8 and to 0 otherwise, and then adds
\* 0.05 s for every active major-sixth harmonic the dimension takes part in
\* when the harmonic bonuses are applied; a landed tick and a tick skipped for
\* an open menu leave the power as it was.
C3_PowerRule ==
    /\ tick.kind = "flight" =>
           \A i \in Dims :
               ship.resonance_power[i] =
                   (IF LevelAbove(tick.level[i], POWER_BUILD_THRESHOLD)
                    THEN tick.power_before[i] + tick.dt ELSE 0) + 50 * tick.sixth[i]
    /\ tick.kind \in {"landed", "menu"} => ship.resonance_power = tick.power_before

\* a flight tick that reset the power of a dimension at or below 0.8 and then
\* added the major-sixth bonus to it
C3_Witness ==
    /\ tick.kind = "flight"
    /\ \E i \in Dims :
         /\ ~LevelAbove(tick.level[i], POWER_BUILD_THRESHOLD)
         /\ tick.sixth[i] > 0
         /\ ship.resonance_power[i] = 50 * tick.sixth[i]
    /\ \E i \in Dims :
         /\ ~LevelAbove(tick.level[i], POWER_BUILD_THRESHOLD)
         /\ tick.power_before[i] > 0
         /\ ship.resonance_power[i] = 0

\* C4: the velocity the resonance loop of a flight tick computes for a
\* dimension has the sign of drive - target; with the drive on the target the
\* level is 1 and the velocity is exactly 0, whatever power has accumulated.
C4_VelocitySign ==
    tick.kind = "flight" =>
        \A i \in Dims :
            /\ Sign(tick.velocity[i]) = Sign(tick.delta_f[i])
            /\ tick.delta_f[i] = 0 => (tick.level[i].n = tick.level[i].d /\ tick.velocity[i] = 0)

\* a flight tick with a drive above its target, one below, and one on the
\* target in a dimension that has accumulated power
C4_Witness ==
    /\ tick.kind = "flight"
    /\ \E i, j, k \in Dims :
         /\ tick.delta_f[i] > 0 /\ tick.velocity[i] > 0
         /\ tick.delta_f[j] < 0 /\ tick.velocity[j] < 0
         /\ tick.delta_f[k] = 0 /\ tick.velocity[k] = 0 /\ ship.resonance_power[k] > 1000

Effects == 1..Len(audio.fx)

RemovedBy(e) == {audio.removed[k].by : k \in {m \in 1..Len(audio.removed) : audio.removed[m].id = e}}

TimesRemoved(e) == Cardinality({m \in 1..Len(audio.removed) : audio.removed[m].id = e})

\* C5, as stated: a non-looping effect leaves the pool only once its position
\* has reached the length of its buffer, never earlier.
C5_NeverRemovedEarly ==
    \A e \in Effects :
        (~audio.fx[e].loop /\ ~InPool(audio, e))
            => audio.fx[e].position >= WaveLen(audio.fx[e].waveform)

\* C5, amended: every callback whose mixing loop holds a non-looping effect
\* advances its position by exactly the callback's frame count, so the
\* position is the sum of those frame counts; the mixing loop removes the
\* effect at most once, in the callback that first brings the position to the
\* buffer length L or beyond; an effect still short of L has left the pool
\* only through the callback's chord handling (a chord waveform) or through
\* the simulation (the clear on ascension), and no effect is removed twice.
C5_RemovedWhenPlayed ==
    \A e \in Effects :
        LET effect == audio.fx[e]
            L == WaveLen(effect.waveform)
        IN  ~effect.loop =>
                /\ effect.position = effect.total
                /\ effect.plays > 0 => (effect.last \in FrameCounts /\ effect.position - effect.last < L)
                /\ InPool(audio, e) => (effect.position < L /\ TimesRemoved(e) = 0)
                /\ "mix" \in RemovedBy(e) => effect.position >= L
                /\ (~InPool(audio, e) /\ effect.position < L)
                       => /\ RemovedBy(e) \in {{"sim"}, {"chord"}}
                          /\ "chord" \in RemovedBy(e) => effect.waveform = "chord"
                /\ (~InPool(audio, e) /\ effect.position >= L) => RemovedBy(e) \in {{"mix"}, {"sim"}}
                /\ TimesRemoved(e) <= 1

\* a ping of 100 samples played by three callbacks of 40 frames and removed by
\* the third
C5_Witness ==
    \E e \in Effects :
        /\ audio.fx[e].waveform = "ping" /\ WaveLen("ping") = 100
        /\ audio.fx[e].plays = 3 /\ audio.fx[e].total = 120 /\ audio.fx[e].last = 40
        /\ ~InPool(audio, e) /\ RemovedBy(e) = {"mix"}

\* C6: the audio callback never removes a looping effect from the pool; a
\* looping effect leaves the pool only through the simulation.
C6_LoopingNeverRemovedByCallback ==
    \A k \in 1..Len(audio.removed) :
        audio.fx[audio.removed[k].id].loop => audio.removed[k].by = "sim"

\* C7: the position of a looping effect is the total number of frames it has
\* consumed, modulo the length of its buffer.
C7_PositionIsTotalModLength ==
    \A e \in Effects :
        audio.fx[e].loop =>
            audio.fx[e].position = audio.fx[e].total % WaveLen(audio.fx[e].waveform)

\* C8: the audio callback never raises: every removal it performs finds its
\* effect in the pool.
C8_CallbackNeverRaises == ~cb.raised

\* C9: the drive frequencies one callback reads at harmonic detection, at
\* synthesis and at intermodulation are the same, those of one simulation
\* tick.
C9_ConsistentSnapshot ==
    cb.pc \in {"chord", "remove", "mix", "effect"} =>
        (cb.detect = cb.synth /\ cb.synth = cb.intermod)

\* C10: when the autopilot of a flight tick sets the drive of a dimension
\* from a desired resonance res in (0, 0.99], the level the same tick computes
\* for the dimension is res, up to the rounding of the square root: it lies
\* between the levels of the distance set and of the next distance.
C10_RoundTrip ==
    (tick.kind = "flight" /\ tick.auto = "snap") =>
        \A i \in Dims :
            LET res == tick.res[i]
                level == tick.level[i]
                next == ResonanceLevel(Abs(tick.delta_f[i]) + 1, tick.width[i])
            IN  (res.p > 0 /\ 100 * res.p <= 99 * res.q) =>
                    /\ level.n * res.q >= res.p * level.d
                    /\ next.n * res.q <= res.p * next.d

\* ---------------------------------------------------------------- autopilot
\* locked on the planet, 5 units away in dimension 0 only
ApproachAxis ==
    Locked([i \in Dims |-> CelestialBodies[2].pos[i] - Vec(5000, 0, 0, 0, 0)[i]], "navigation", 1)

\* locked on the planet, 20 units away in dimension 1 only
ApproachEdge ==
    Locked([i \in Dims |-> CelestialBodies[2].pos[i] - Vec(0, -20000, 0, 0, 0)[i]], "healing", 0)

\* locked on the planet and 0.5 unit short of it, drives off their targets
AlmostThere ==
    LET w == Locked([i \in Dims |-> CelestialBodies[2].pos[i] - Vec(300, 0, -400, 0, 0)[i]],
                    "navigation", 1)
    IN  [w EXCEPT !.s = Settled([w.s EXCEPT !.r_drive = Drive0, !.velocity = Vec(500, 0, -300, 0, 0)])]

\* half a unit short of the nebula it is locked on, inside its dissonance field
AlmostNebula ==
    LET w == Locked([i \in Dims |-> CelestialBodies[3].pos[i] - Vec(300, 0, -400, 0, 0)[i]], "healing", 0)
    IN  [w EXCEPT !.s = Settled([w.s EXCEPT !.r_drive = Drive0, !.locked_target = 3,
                                            !.velocity = Vec(500, 0, -300, 0, 0)])]

NavScenarios == {ApproachAxis, ApproachEdge, ApproachNear, ApproachFar, AlmostThere, AlmostNebula}

NavInputs == {Key("none", {}), Key("j", {}), Key("g", {}), Key("m", {}), Key("return", {}),
              Key("down", {"down"}), Key("w", {"w"})}

NavInput == InputStep(NavInputs, MaxNavFrames)

InitNav == InitWith(NavScenarios)

NextNav == NavInput \/ SimTick

SpecNav == InitNav /\ [][NextNav]_vars

Steering == tick.kind = "flight" /\ tick.auto \in {"snap", "interpolate"}

\* C11, as stated: the desired resonance of dimension i is
\* min(0.99, |d_i| / SLOWDOWN_DIST) at every distance to the target.
C11_ResOverSlowdown ==
    Steering =>
        \A i \in Dims :
            LET a == Abs(tick.dir[i]) \div 100
                res == tick.res[i]
            IN  IF 100 * a > 99 * SLOWDOWN_DIST * 10
                THEN 100 * res.p = 99 * res.q
                ELSE res.p * SLOWDOWN_DIST * 10 = res.q * a

\* C11, amended: the desired resonance of dimension i is
\* min(0.999, |d_i| / max(norm, SLOWDOWN_DIST)) with norm the distance to the
\* target, so |d_i| / SLOWDOWN_DIST within the slowdown distance and
\* |d_i| / norm beyond it, and it is 0 when the desired speed, that ratio times
\* max_velocity, is at most 0.01; a target 5 units away in dimension 0 only
\* gives 1/4 and a drive resonance_width * sqrt(3) above the target.
C11_DesiredResonance ==
    Steering =>
        /\ \A i \in Dims :
             LET a == Abs(tick.dir[i]) \div 100
                 res == tick.res[i]
                 far == tick.norm_sq > (SLOWDOWN_DIST * 10) * (SLOWDOWN_DIST * 10)
             IN  \E b \in 1..2000 :
                    /\ IF far THEN b * b <= tick.norm_sq /\ tick.norm_sq < (b + 1) * (b + 1)
                              ELSE b = SLOWDOWN_DIST * 10
                    /\ IF a * ship.max_velocity <= 10 * b THEN res.p = 0
                       ELSE IF 1000 * a > 999 * b THEN 1000 * res.p = 999 * res.q
                       ELSE res.p * b = res.q * a
        /\ tick.dir = Vec(5000, 0, 0, 0, 0) =>
             /\ 4 * tick.res[0].p = tick.res[0].q
             /\ \A i \in Dims \ {0} : tick.res[i].p = 0
             /\ tick.auto = "snap"
             /\ tick.delta_f[0] > 0
             /\ tick.delta_f[0] * tick.delta_f[0] <= 3 * ship.resonance_width * ship.resonance_width
             /\ 3 * ship.resonance_width * ship.resonance_width < (tick.delta_f[0] + 1) * (tick.delta_f[0] + 1)

\* the example of the claim: a target 5 units away in dimension 0 only
C11_Witness ==
    /\ Steering
    /\ tick.dir = Vec(5000, 0, 0, 0, 0)
    /\ 4 * tick.res[0].p = tick.res[0].q
    /\ ship.r_drive[0] > ship.f_target[0]

\* a target beyond the slowdown distance
SteeringFar ==
    /\ Steering
    /\ tick.norm_sq > (SLOWDOWN_DIST * 10) * (SLOWDOWN_DIST * 10)
    /\ \E i \in Dims : tick.res[i].p > 0 /\ tick.res[i].p * SLOWDOWN_DIST * 10 # tick.res[i].q * (Abs(tick.dir[i]) \div 100)

\* a dimension whose ratio is capped at 0.999
SteeringCapped == Steering /\ \E i \in Dims : 1000 * tick.res[i].p = 999 * tick.res[i].q

\* ------------------------------------------------------- arrival at a target
\* a step of the simulation thread that runs the in-flight part of Ship.update
FlightTickStep ==
    /\ frame.phase = "update"
    /\ frame'.n = frame.n + 1
    /\ ~ship.landed_mode
    /\ ~(ship.hud_mode \/ ship.upgrade_mode \/ ship.starmap_mode \/ ship.rift_selection_mode)

\* a flight tick that starts less than 1.0 from a locked target that is no rift
ArrivalTick ==
    /\ FlightTickStep
    /\ ship.locked_target # 0
    /\ ~ship.locked_is_rift
    /\ NormSq(ship) < 10 * 10

\* C12 as stated: an in-flight tick that starts less than 1.0 from a locked
\* non-rift target ends with every drive frequency equal to its target
\* frequency, zero velocity from the resonance model, the lock cleared and the
\* lock tone out of the sound pool
C12_TickEndsOnTarget ==
    [][ArrivalTick =>
          /\ ship'.r_drive = ship'.f_target
          /\ tick'.velocity = ZeroVec
          /\ ship'.locked_target = 0 /\ ~ship'.locked_is_rift
          /\ ~InPool(audio', ship.lock_sound)]_vars

\* C12, amended: such a tick sets every drive frequency to the target
\* frequency the tick computed, the resonance model gives zero velocity, the
\* lock is cleared and the lock tone is out of the pool; at the end of the
\* tick the drive equals the target unless the ship is inside a nebula's
\* dissonance field, where each target has drifted from the drive by at most
\* 7.5 Hz per second of tick time
C12_ArrivalSnapsDrive ==
    [][ArrivalTick =>
          /\ ship'.r_drive = tick'.targets
          /\ tick'.delta_f = ZeroVec
          /\ tick'.velocity = ZeroVec
          /\ ship'.locked_target = 0 /\ ~ship'.locked_is_rift /\ ship'.lock_sound = 0
          /\ ~InPool(audio', ship.lock_sound)
          /\ (~tick'.nebula => ship'.r_drive = ship'.f_target)
          /\ (tick'.nebula => \A i \in Dims :
                 2000 * Abs(ship'.f_target[i] - ship'.r_drive[i]) <= 15 * tick'.dt * FreqScale)]_vars

\* the ship has just arrived at the planet: the drive left Drive0 for the
\* targets, the lock is gone and its tone was taken out of the pool
C12_Witness ==
    /\ tick.kind = "flight" /\ tick.auto = "arrived" /\ tick.norm_sq < 10 * 10
    /\ ~tick.nebula
    /\ ship.locked_target = 0 /\ ship.lock_sound = 0
    /\ ship.r_drive = ship.f_target /\ ship.r_drive # Drive0
    /\ tick.lock_sound # 0 /\ ~InPool(audio, tick.lock_sound)
    /\ \E k \in 1..Len(audio.removed) : audio.removed[k] = [id |-> tick.lock_sound, by |-> "sim"]

\* the ship has just arrived at the nebula and the targets drifted off the drive
ArrivedInNebula ==
    /\ tick.kind = "flight" /\ tick.auto = "arrived" /\ tick.nebula
    /\ ship.r_drive = tick.targets /\ ship.r_drive # ship.f_target

\* ------------------------------------------------------------------- rifts
\* the world with one more rift at pos, time left on its fade timer, its hum
\* in the pool
WithRift(w, pos, timer, type) ==
    [w EXCEPT !.s.rift_objects = Append(@, [pos |-> pos, timer |-> timer, type |-> type,
                                            sound |-> Len(w.a.fx) + 1,
                                            last_beep_time |-> w.s.simulation_time - 1000]),
              !.s.rifts = Append(@, Len(w.s.rift_objects) + 1),
              !.a = Play(w.a, "rift_hum", TRUE)]

\* the last rift of the list locked from the rift menu (lock_on_rift_item)
RiftLock(w) ==
    [w EXCEPT !.s.locked_rift = Len(w.s.rift_objects),
              !.s.locked_target = -Len(w.s.rift_objects),
              !.s.locked_is_rift = TRUE,
              !.s.lock_sound = Len(w.a.fx) + 1,
              !.s.lock_log = Append(@, "lock"),
              !.a = Play(w.a, "rift_beep", TRUE)]

\* in flight at the origin, the drive on the targets or off them
Flying(drive) ==
    [s |-> Settled([Ship(drive, Base0) EXCEPT !.simulation_time = 10000, !.last_harmonic_check = 9990]),
     a |-> NewAudio]

\* a rift in reach, nothing locked
RiftNear == WithRift(Flying(Base0), Vec(3000, 4000, 0, 4854, 6472), 20000, "crystal")

\* locked on a rift 30 units away
RiftLocked == RiftLock(WithRift(Flying(Base0), Vec(-15000, 15000, 15000, -24270, 24270), 20000, "boost"))

\* locked on a rift inside the alignment tolerance, the drive off the targets
RiftInTolerance == RiftLock(WithRift(Flying(Drive0), Vec(3000, 4000, 0, 4854, 6472), 20000, "crystal"))

\* the same, the charge sequence about to end
RiftCharging ==
    [RiftLock(WithRift(Flying(Base0), Vec(3000, 4000, 0, 4854, 6472), 20000, "hazard"))
        EXCEPT !.s.rift_charge_timer = 500, !.s.approached_rift_announced = TRUE]

\* the locked rift about to fade, a second rift behind it
RiftFading ==
    RiftLock(WithRift(WithRift(Flying(Base0), Vec(3000, 4000, 0, 4854, 6472), 20000, "boost"),
                      Vec(-15000, 15000, 15000, -24270, 24270), 500, "crystal"))

RiftScenarios == {RiftNear, RiftLocked, RiftInTolerance, RiftCharging, RiftFading}

RiftInputs ==
    {Key(k, {}) : k \in {"none", "m", "return", "down"}}
    \cup {[Key("e", {}) EXCEPT !.warp = warp] : warp \in Warps}

RiftInput == InputStep(RiftInputs, MaxRiftFrames)

RiftTick == TickWith({<<"none", FALSE>>, <<"crystal", FALSE>>, <<"none", TRUE>>})

InitRift == InitWith(RiftScenarios)

NextRift == RiftInput \/ RiftTick

SpecRift == InitRift /\ [][NextRift]_vars

\* a rift is locked
RiftLockHeld == ship.locked_is_rift /\ ship.locked_rift # 0 /\ ship.locked_target # 0

\* the step leaves the rift lock as it is
RiftLockKept ==
    /\ ship'.locked_rift = ship.locked_rift
    /\ ship'.locked_target = ship.locked_target
    /\ ship'.locked_is_rift

\* the step logged exactly one lock event, of one of the kinds
LockEventIn(kinds) ==
    /\ Len(ship'.lock_log) = Len(ship.lock_log) + 1
    /\ ship'.lock_log[Len(ship'.lock_log)] \in kinds

\* C13 as stated: a rift lock stays set until an explicit unlock, the entry
\* into the rift or the fading of the rift, and on no other event
C13_ThreeEvents ==
    [][RiftLockHeld /\ ~RiftLockKept => LockEventIn({"unlock", "enter", "fade"})]_vars

\* C13, amended: a rift lock is not cleared by arriving inside the alignment
\* tolerance; it stays set until an explicit unlock, the entry into the rift,
\* the fading of the rift, or a lock command on another starmap or rift item
C13_RiftLockSustained ==
    [][/\ RiftLockHeld /\ ~RiftLockKept
            => LockEventIn({"unlock", "enter", "fade", "lock"})
       /\ (RiftLockHeld /\ FlightTickStep /\ Arrived(ship)
           /\ ship.rift_objects[ship.locked_rift].timer > frame.dt
           /\ ship'.rifts = ship.rifts)
            => RiftLockKept /\ ship'.approached_rift_announced /\ ship'.lock_sound = ship.lock_sound]_vars

\* the ship has arrived inside the tolerance of the locked rift: the drive
\* snapped to the targets and the lock is still set, its tone in the pool
C13_Witness ==
    /\ tick.kind = "flight" /\ tick.auto = "arrived"
    /\ tick.norm_sq < (RIFT_ALIGNMENT_TOLERANCE * 10) * (RIFT_ALIGNMENT_TOLERANCE * 10)
    /\ RiftLockHeld /\ ship.approached_rift_announced
    /\ ship.locked_rift \in {ship.rifts[k] : k \in 1..Len(ship.rifts)}
    /\ ship.r_drive # Drive0
    /\ InPool(audio, ship.lock_sound)

\* the rift lock was replaced by a lock on a body of the starmap
RiftLockReplaced ==
    /\ ship.locked_target \in Bodies /\ ship.locked_rift = 0 /\ ~ship.locked_is_rift
    /\ Len(ship.lock_log) >= 2
    /\ ship.lock_log[Len(ship.lock_log)] = "lock" /\ ship.lock_log[Len(ship.lock_log) - 1] = "lock"

RiftEntered == ship.lock_log # <<>> /\ ship.lock_log[Len(ship.lock_log)] = "enter"

RiftFaded == ship.lock_log # <<>> /\ ship.lock_log[Len(ship.lock_log)] = "fade"

RiftUnlocked == ship.lock_log # <<>> /\ ship.lock_log[Len(ship.lock_log)] = "unlock"

RiftSpawned == Len(ship.rift_objects) > 1 /\ \E k \in 1..Len(ship.rift_objects) : ship.rift_objects[k].type = "perfect_fifth"

\* ------------------------------------------------------- harmonic detection
\* the second drive frequency over a first one of 2000 / FreqScale Hz: the
\* nine ratios of the table, and ratios around the 2% tolerance of 1.5
HarmonicDrives ==
    {2 * HARMONIC_RATIOS[k].ratio : k \in 1..Len(HARMONIC_RATIOS)}
    \cup {2940, 2941, 3059, 3060, 3061, 3100}

\* in flight in resonance tuning mode, dimension 2 selected, the harmonic
\* check due
Tuned(hi) ==
    [s |-> Settled([Ship(Vec(2000, hi, 1250, 1730, 4700), Base0)
               EXCEPT !.simulation_time = 10000, !.last_harmonic_check = 9000,
                      !.tuning_mode = TRUE, !.selected_dim = 1]),
     a |-> NewAudio]

HarmonicScenarios == {Tuned(hi) : hi \in HarmonicDrives}

HarmonicInputs == {Key("none", {}), Key("up", {"up"}), Key("down", {"down"})}

HarmonicInput == InputStep(HarmonicInputs, MaxHarmonicFrames)

InitHarmonic == InitWith(HarmonicScenarios)

NextHarmonic ==
    \/ HarmonicInput \/ SimTick
    \/ CbDetect \/ CbSynth \/ CbIntermod \/ CbChord \/ CbChordRemove \/ CbMixSnapshot \/ CbMixEffect

SpecHarmonic == InitHarmonic /\ [][NextHarmonic]_vars

\* the simulation thread has just run detect_harmonic_relationships on the drive
Checked == tick.kind = "flight" /\ tick.checked /\ frame.phase = "input"

\* the audio callback has run detect_harmonic_pairs on cb.detect
Heard == cb.pc # "idle"

Reported(list, name, i, j) ==
    \E k \in 1..Len(list) : list[k].name = name /\ {list[k].i, list[k].j} = {i, j}

ReportedAny(list, i, j) == \E k \in 1..Len(list) : {list[k].i, list[k].j} = {i, j}

DimPairs == {p \in Dims \X Dims : p[1] < p[2]}

\* larger over smaller of two drive frequencies is num / den
RatioIs(drive, p, num, den) ==
    den * Max2(drive[p[1]], drive[p[2]]) = num * Min2(drive[p[1]], drive[p[2]])

RatioAbove(drive, p, num, den) ==
    den * Max2(drive[p[1]], drive[p[2]]) > num * Min2(drive[p[1]], drive[p[2]])

\* C14: both detections report a pair of dimensions as a perfect fifth when
\* the ratio of their drive frequencies, larger over smaller, is exactly 1.5,
\* do not report it as one when the ratio is above 1.53, and report nothing
\* for the pair when the ratio is above 1.53 and at most 1.56
C14_PerfectFifth ==
    \A p \in DimPairs :
        /\ Checked =>
             /\ RatioIs(ship.r_drive, p, 3, 2) => Reported(tick.detected, "perfect_fifth", p[1], p[2])
             /\ RatioAbove(ship.r_drive, p, 153, 100)
                  => ~Reported(tick.detected, "perfect_fifth", p[1], p[2])
             /\ (RatioAbove(ship.r_drive, p, 153, 100) /\ ~RatioAbove(ship.r_drive, p, 156, 100))
                  => ~ReportedAny(tick.detected, p[1], p[2])
        /\ Heard =>
             /\ RatioIs(cb.detect, p, 3, 2) => Reported(cb.pairs, "perfect_fifth", p[1], p[2])
             /\ RatioAbove(cb.detect, p, 153, 100) => ~Reported(cb.pairs, "perfect_fifth", p[1], p[2])
             /\ (RatioAbove(cb.detect, p, 153, 100) /\ ~RatioAbove(cb.detect, p, 156, 100))
                  => ~ReportedAny(cb.pairs, p[1], p[2])

\* both detections have seen drives of 500 Hz and 333.3 Hz in dimensions 2
\* and 1 and reported the perfect fifth
C14_Witness ==
    /\ Checked /\ Heard
    /\ ship.r_drive[0] = 2000 /\ ship.r_drive[1] = 3000 /\ cb.detect = ship.r_drive
    /\ Reported(tick.detected, "perfect_fifth", 0, 1)
    /\ Reported(cb.pairs, "perfect_fifth", 0, 1)

\* both detections have seen a ratio just above 1.53 and reported nothing
JustBeyondFifth ==
    /\ Checked /\ Heard
    /\ ship.r_drive[0] = 2000 /\ ship.r_drive[1] = 3061 /\ cb.detect = ship.r_drive
    /\ ~ReportedAny(tick.detected, 0, 1) /\ ~ReportedAny(cb.pairs, 0, 1)

\* C15 as stated: a pair whose ratio equals the ratio of a table entry exactly
\* is reported under the name of that entry, by both detections
C15_OwnName ==
    \A p \in DimPairs : \A k \in 1..Len(HARMONIC_RATIOS) :
        /\ (Checked /\ RatioIs(ship.r_drive, p, HARMONIC_RATIOS[k].ratio, 1000))
             => Reported(tick.detected, HARMONIC_RATIOS[k].name, p[1], p[2])
        /\ (Heard /\ RatioIs(cb.detect, p, HARMONIC_RATIOS[k].ratio, 1000))
             => Reported(cb.pairs, HARMONIC_RATIOS[k].name, p[1], p[2])

\* the eight entries before golden are reported under their own names
OwnNameButGolden ==
    \A p \in DimPairs : \A k \in 1..(Len(HARMONIC_RATIOS) - 1) :
        /\ (Checked /\ RatioIs(ship.r_drive, p, HARMONIC_RATIOS[k].ratio, 1000))
             => Reported(tick.detected, HARMONIC_RATIOS[k].name, p[1], p[2])
        /\ (Heard /\ RatioIs(cb.detect, p, HARMONIC_RATIOS[k].ratio, 1000))
             => Reported(cb.pairs, HARMONIC_RATIOS[k].name, p[1], p[2])

\* a ratio of PHI is reported as a minor sixth
GoldenAsMinorSixth ==
    /\ Checked /\ Heard /\ cb.detect = ship.r_drive
    /\ RatioIs(ship.r_drive, <<0, 1>>, PHI.p, PHI.q)
    /\ Reported(tick.detected, "minor_sixth", 0, 1) /\ Reported(cb.pairs, "minor_sixth", 0, 1)

\* --------------------------------------------------------- target frequencies
\* target frequencies on and next to the ends of FREQUENCY_RANGE
EdgeTargets == Vec(Hz(FREQUENCY_MIN), Hz(FREQUENCY_MAX), Hz(FREQUENCY_MIN) + 5, Hz(FREQUENCY_MAX) - 5, Hz(500))

\* landed on the planet with the drifting targets at the ends of the range
LandedAtEdge(biome, wf) ==
    LET w == Landed(biome, wf, 0)
    IN  [w EXCEPT !.s.f_target = EdgeTargets]

\* in flight inside the dissonance field of the nebula, 3 units from its
\* centre, with base targets at the ends of the range
NebulaAtEdge ==
    LET w == Flying(Drive0)
    IN  [w EXCEPT !.s = Settled([w.s EXCEPT
                     !.position = [i \in Dims |-> CelestialBodies[3].pos[i] - Vec(1800, 0, -2400, 0, 0)[i]],
                     !.base_f_target = EdgeTargets, !.f_target = EdgeTargets,
                     !.nearest_body = 3])]

TargetScenarios ==
    {LandedAtEdge("harmonic", "chord"), LandedAtEdge("dissonant", "dissonant"), NebulaAtEdge, Cruise}

TargetInputs == {Key("none", {}), Key("t", {}), Key("w", {"w"})}

TargetInput == InputStep(TargetInputs, MaxTargetFrames)

InitTarget == InitWith(TargetScenarios)

NextTarget == TargetInput \/ SimTick

SpecTarget == InitTarget /\ [][NextTarget]_vars

TargetsInRange ==
    \A i \in Dims : Hz(FREQUENCY_MIN) <= ship.f_target[i] /\ ship.f_target[i] <= Hz(FREQUENCY_MAX)

\* C16: every in-flight tick sets each target to its base target plus the
\* environmental influence, clamped to [200, 800] Hz, and in every reachable
\* state (in flight, landed with biome drift, in a nebula dissonance field)
\* every target frequency lies within [200, 800] Hz
C16_TargetClamped ==
    /\ []TargetsInRange
    /\ [][FlightTickStep =>
            /\ tick'.kind = "flight"
            /\ \A i \in Dims :
                 tick'.targets[i] = Max2(Hz(FREQUENCY_MIN),
                                         Min2(Hz(FREQUENCY_MAX),
                                              ship.base_f_target[i] + EnvInfluence(ship, i)))]_vars

\* an in-flight tick on the planet has clamped a target that base plus
\* influence puts above 800 Hz
C16_Witness ==
    /\ tick.kind = "flight" /\ ~tick.nebula
    /\ \E i \in Dims :
         /\ ship.base_f_target[i] + EnvInfluence(ship, i) > Hz(FREQUENCY_MAX)
         /\ tick.targets[i] = Hz(FREQUENCY_MAX) /\ ship.f_target[i] = Hz(FREQUENCY_MAX)

\* the drift of the nebula field has been held at an end of the range
NebulaDriftClamped ==
    /\ tick.kind = "flight" /\ tick.nebula
    /\ \E i, j \in Dims :
         /\ tick.targets[i] = Hz(FREQUENCY_MAX) /\ ship.f_target[i] = Hz(FREQUENCY_MAX)
         /\ ship.f_target[j] < tick.targets[j]

\* the drift of the biome has been held at an end of the range
LandedDriftClamped ==
    /\ tick.kind = "landed"
    /\ ship.f_target[4] > EdgeTargets[4]
    /\ ship.f_target[1] = Hz(FREQUENCY_MAX)

\* ----------------------------------------------------------------- dissonance
\* in flight in tuning mode with every drive far from its target, the mean
\* resonance low for the last `timer` ms; the drive may hold a perfect fifth
Dissonant(drive, timer) ==
    LET w == Flying(drive)
    IN  [w EXCEPT !.s.tuning_mode = TRUE, !.s.selected_dim = 1, !.s.last_harmonic_check = 9000,
                  !.s.dissonance_timer = timer, !.s.low_time = timer]

DissonantDrives == {Vec(2000, 3000, 1250, 1730, 4700), Vec(2000, 3100, 1250, 1730, 4700)}

DissonanceScenarios ==
    {Dissonant(drive, timer) : drive \in DissonantDrives, timer \in {9000, 9500, 9990}}

DissonanceInputs == {Key("none", {}), Key("j", {}), Key("up", {"up"})}

DissonanceInput == InputStep(DissonanceInputs, MaxDissonanceFrames)

InitDissonance == InitWith(DissonanceScenarios)

NextDissonance == DissonanceInput \/ SimTick

SpecDissonance == InitDissonance /\ [][NextDissonance]_vars

\* C17: the turbulence impulse is applied only on a tick with a low mean
\* resonance that ends more than 10 s of tick time, all of it with the mean
\* resonance below 0.2, since the timer was last zero; the impulse resets the
\* timer to 0, and after a tick with a mean resonance of 0.2 or more the timer
\* is 0
C17_Dissonance ==
    /\ tick.impulse =>
         /\ tick.low
         /\ ship.low_time > DISSONANCE_DURATION * 1000
         /\ ship.dissonance_timer = 0
    /\ (tick.kind = "flight" /\ ~tick.impulse) => ship.dissonance_timer <= ship.low_time
    /\ ~MeanBelow(ship, DISSONANCE_THRESHOLD) => ship.dissonance_timer = 0

\* a tick has applied the impulse after more than 10 s of low resonance
C17_Witness ==
    /\ tick.impulse /\ tick.low
    /\ ship.low_time > DISSONANCE_DURATION * 1000 /\ ship.dissonance_timer = 0
    /\ MeanBelow(ship, DISSONANCE_THRESHOLD)

\* a tick with the mean resonance back above the threshold has zeroed a
\* running timer
TimerReset ==
    /\ tick.kind = "flight" /\ ~tick.low
    /\ ~MeanBelow(ship, DISSONANCE_THRESHOLD) /\ ship.dissonance_timer = 0

\* the perfect fifth bonus has kept the timer behind the low time: no impulse
\* after more than 10 s
FifthDelaysImpulse ==
    /\ tick.kind = "flight" /\ tick.low /\ ~tick.impulse
    /\ ship.low_time > DISSONANCE_DURATION * 1000
    /\ ship.dissonance_timer < ship.low_time

\* ------------------------------------------------------------ rift fade timer
LiveRifts(s) == {s.rifts[k] : k \in 1..Len(s.rifts)}

\* C18 as stated: on every in-flight tick the remaining lifetime of a rift
\* that stays decreases
C18_PlainCountdown ==
    [][FlightTickStep =>
         \A r \in LiveRifts(ship) \cap LiveRifts(ship') :
             ship'.rift_objects[r].timer < ship.rift_objects[r].timer]_vars

\* C18, amended: an in-flight tick takes dt off the timer of every rift of the
\* list and removes the rift when that leaves nothing; a rift that stays gets
\* dt * PHI back when the mean resonance of the tick is above 0.9, and never
\* otherwise
C18_FadeTimer ==
    [][FlightTickStep =>
         \A r \in LiveRifts(ship) :
             LET left == ship.rift_objects[r].timer - tick'.dt
             IN  /\ left <= 0 => (r \notin LiveRifts(ship') /\ r \in tick'.faded)
                 /\ r \in LiveRifts(ship') =>
                      /\ left > 0
                      /\ ship'.rift_objects[r].timer =
                             IF MeanAbove(ship', RIFT_RESONANCE)
                             THEN left + (tick'.dt * PHI.p) \div PHI.q ELSE left]_vars

\* after a tick with the mean resonance above 0.9 a rift has more than
\* RIFT_FADE_TIME left
C18_Witness ==
    /\ tick.kind = "flight" /\ MeanAbove(ship, RIFT_RESONANCE)
    /\ \E r \in LiveRifts(ship) : ship.rift_objects[r].timer > RIFT_FADE_TIME * 1000

\* a tick with a lower mean resonance has run the timer of a rift down
RiftRunsDown ==
    /\ tick.kind = "flight" /\ ~MeanAbove(ship, RIFT_RESONANCE) /\ tick.faded = {}
    /\ \E r \in LiveRifts(ship) : ship.rift_objects[r].timer < RIFT_FADE_TIME * 1000

\* ---------------------------------------------------------- rift hums, saving
Ctrl(k) == [Key(k, {}) EXCEPT !.mod = "ctrl"]

\* savegame.pkl as an earlier flight left it: without rifts, with one rift
SaveFiles == {<<>>, <<SavedState(Flying(Base0).s)>>, <<SavedState(RiftNear.s)>>}

\* landed on the planet, a rift of the flight still in the list
LandedWithRift(file, crystals) ==
    LET w == WithRift(Landed("harmonic", "chord", crystals), Vec(3000, 4000, 0, 4854, 6472), 20000, "boost")
    IN  [w EXCEPT !.s.savegame = file]

\* in flight five minutes after the last autosave, a rift in reach
AutosaveDue ==
    LET w == Flying(Base0)
    IN  WithRift([w EXCEPT !.s.simulation_time = 310000, !.s.last_harmonic_check = 309990,
                           !.s.last_autosave_time = 9990],
                 Vec(3000, 4000, 0, 4854, 6472), 20000, "crystal")

SaveScenarios ==
    {LandedWithRift(file, 0) : file \in SaveFiles}
    \cup {LandedWithRift(<<>>, ASCENSION_CRYSTAL_THRESHOLD - 1), RiftFading, AutosaveDue}

SaveInputs == {Key("none", {}), Key("t", {}), Key("x", {}), Ctrl("s"), Ctrl("l"), Ctrl("a")}

SaveInput == InputStep(SaveInputs, MaxSaveFrames)

InitSave == InitWith(SaveScenarios)

NextSave == SaveInput \/ SimTick

SpecSave == InitSave /\ [][NextSave]_vars

RiftHums ==
    {id \in 1..Len(audio.fx) : audio.fx[id].waveform = "rift_hum" /\ InPool(audio, id)}

\* C19: the hum of a rift that has left the rift list is not in the pool, and
\* every rift hum in the pool is the sound of exactly one rift of the list
C19_HumsFollowRifts ==
    /\ \A r \in 1..Len(ship.rift_objects) :
         r \notin LiveRifts(ship) => ~InPool(audio, ship.rift_objects[r].sound)
    /\ \A id \in RiftHums :
         Cardinality({r \in LiveRifts(ship) : ship.rift_objects[r].sound = id}) = 1

\* a rift has faded and its hum has left the pool with it
HumFaded ==
    /\ tick.faded # {}
    /\ \A r \in tick.faded : ~InPool(audio, ship.rift_objects[r].sound)

\* the ascension has emptied the rift list and the pool
HumsCleared ==
    /\ ship.needs_universe_regeneration /\ ship.rifts = <<>> /\ ship.rift_objects # <<>>
    /\ audio.active_sound_effects = <<>>

\* load_game has replaced the rift list and the hum of the old rift plays on
HumOrphaned ==
    /\ ship.needs_universe_regeneration /\ ship.landed_mode
    /\ \E r \in 1..Len(ship.rift_objects) :
         r \notin LiveRifts(ship) /\ InPool(audio, ship.rift_objects[r].sound)

\* the autosave of a flight tick has written the rift list to the file
Autosaved ==
    /\ tick.kind = "flight" /\ ship.last_autosave_time = ship.simulation_time
    /\ ship.savegame # <<>> /\ Len(ship.savegame[1].rifts) = 1

\* --------------------------------------------------------------- announcements
\* in flight in tuning mode; a game saved a moment ago
SpeechScenarios ==
    {[w EXCEPT !.s.tuning_mode = TRUE] : w \in {Flying(Base0)}}
    \cup {LET w == Flying(Base0)
          IN  [w EXCEPT !.s = Speak([w.s EXCEPT !.tuning_mode = TRUE, !.savegame = <<SavedState(w.s)>>],
                                    "Game saved.")]}

SpeechInputs == {Key("none", {}), Key("h", {}), Ctrl("s"), Ctrl("a")}

SpeechInput == InputStep(SpeechInputs, MaxSpeechFrames)

InitSpeech == InitWith(SpeechScenarios)

SpeechPitchDetect == PitchDetectUpTo(MaxSpeechPitches)

NextSpeech == SpeechInput \/ SimTick \/ PitchCheck \/ SpeechPitchDetect

SpecSpeech == InitSpeech /\ [][NextSpeech]_vars

Forwarded(s) == SelectSeq(s.speak_log, LAMBDA e : e.forwarded)

Apart(t1, t2) == SPEECH_COOLDOWN.q * (t2 - t1) > SPEECH_COOLDOWN.p * 1000

\* two forwardings of one string are more than SPEECH_COOLDOWN apart
ForwardedApart ==
    \A i, j \in 1..Len(Forwarded(ship)) :
        (i < j /\ Forwarded(ship)[i].msg = Forwarded(ship)[j].msg)
            => Apart(Forwarded(ship)[i].time, Forwarded(ship)[j].time)

\* the requests a step has added to the log
NewRequests == {k \in 1..Len(ship'.speak_log) : k > Len(ship.speak_log)}

\* C20: two forwardings of the same string to the speech sink are more than
\* 0.5 s of simulation time apart; a request for a string inside its window is
\* dropped, and leaves the time the window started at as it was
C20_Cooldown ==
    /\ []ForwardedApart
    /\ [][\A k \in 1..Len(ship.last_spoken) :
             ~Apart(ship.last_spoken[k].time, ship'.simulation_time) =>
                 /\ \E m \in 1..Len(ship'.last_spoken) : ship'.last_spoken[m] = ship.last_spoken[k]
                 /\ \A n \in NewRequests :
                        ship'.speak_log[n].msg = ship.last_spoken[k].msg => ~ship'.speak_log[n].forwarded]_vars

\* a string has been forwarded, dropped inside the window, and forwarded again
\* once the window of the first forwarding was over
C20_Witness ==
    \E i, j, k \in 1..Len(ship.speak_log) :
        /\ i < j /\ j < k
        /\ ship.speak_log[i].msg = ship.speak_log[j].msg /\ ship.speak_log[j].msg = ship.speak_log[k].msg
        /\ ship.speak_log[i].forwarded /\ ~ship.speak_log[j].forwarded /\ ship.speak_log[k].forwarded
        /\ Apart(ship.speak_log[i].time, ship.speak_log[k].time)

\* the pitch thread has had its second request dropped
PitchAnnounceDropped ==
    \E i, j \in 1..Len(ship.speak_log) :
        /\ i < j
        /\ ship.speak_log[i].msg = "Tuned to hummed pitch 523.00 Hz." /\ ship.speak_log[i].forwarded
        /\ ship.speak_log[j].msg = "Tuned to hummed pitch 523.00 Hz." /\ ~ship.speak_log[j].forwarded

\* -------------------------------------------------------------------- landing
\* in flight at an offset from a body, the drive detuned from the targets of
\* that place, the countdown at timer
NearBody(body, type, offset, detune, timer) ==
    LET s0 == [Ship(Base0, Base0)
                  EXCEPT !.position = [i \in Dims |-> CelestialBodies[body].pos[i] + offset[i]],
                         !.simulation_time = 10000, !.last_harmonic_check = 9990,
                         !.exoplanet_type = type, !.landing_timer = timer]
        s1 == NearObject([s0 EXCEPT !.nearest_body = NearestBody(s0)])
        ft == FlightTargets(s1)
    IN  [s |-> Settled([s1 EXCEPT !.f_target = ft,
                                  !.r_drive = [i \in Dims |-> Clamp(ft[i] + detune[i])]]),
         a |-> NewAudio]

\* 5 units from the body in the first dimension
Beside == Vec(5000, 0, 0, 0, 0)

\* 14 units from the body in the fourth dimension, which the movement keys do
\* not steer: a tick of 0.6 s at full speed leaves the scan range
AtEdge == Vec(0, 0, 0, 14000, 0)

\* a drive a sixth of a hertz above the target: resonance 0.9997, full speed
Hair == Vec(0, 0, 0, 1, 0)

\* a drive far below the targets in every dimension
Detuned == Vec(-Hz(200), -Hz(200), -Hz(200), -Hz(200), -Hz(200))

WithSave(w) == [w EXCEPT !.s.savegame = <<SavedState(Flying(Drive0).s)>>]

LandingScenarios ==
    {NearBody(2, type, Beside, ZeroVec, 0) : type \in ExoplanetNames}
        \cup {NearBody(2, type, Beside, ZeroVec, 500) : type \in {"super_earth", "ocean_world"}}
        \cup {NearBody(2, "super_earth", Beside, Detuned, timer) : timer \in {0, 500}}
        \cup {NearBody(2, "super_earth", AtEdge, Hair, 500),
              NearBody(1, "super_earth", Beside, ZeroVec, 500),
              NearBody(1, "super_earth", Beside, ZeroVec, 0),
              WithSave(NearBody(2, "super_earth", Beside, ZeroVec, 0)),
              WithSave(NearBody(3, "super_earth", Vec(40000, 0, 0, 0, 0), ZeroVec, 0))}

LandingInputs == {Key("none", {}), Key("l", {}), Ctrl("l")}

LandingInput == InputStep(LandingInputs, MaxLandingFrames)

InitLanding == InitWith(LandingScenarios)

NextLanding == LandingInput \/ SimTick

SpecLanding == InitLanding /\ [][NextLanding]_vars

LandingFailureTexts ==
    {"Cannot anchor on this celestial body.",
     "Anchoring failed. This world requires exceptionally high harmonic alignment. Integrity reduced.",
     "Anchoring failed due to dissonance. Integrity reduced.",
     "Warning: Low integrity. Repair needed."}

\* C21: a tick on which the landing countdown ran out with the landing
\* conditions not met has completed normally (the loop goes on to the next
\* frame), with the integrity 0.1 lower, the ship not landed and a failure
\* announcement requested on that tick
C21_LandingFailureCompletes ==
    (tick.landing = "failed" /\ frame.phase # "update") =>
        /\ ~tick.raised
        /\ frame.phase = "input"
        /\ ship.resonance_integrity = tick.integrity_before - 100
        /\ ~ship.landed_mode
        /\ \E k \in 1..Len(ship.speak_log) :
               /\ ship.speak_log[k].msg \in LandingFailureTexts
               /\ ship.speak_log[k].time = ship.simulation_time

\* the countdown ran out with a body in range and the landing failed as an
\* outcome: integrity lower, announcement made, next frame
LandingFailedInRange ==
    /\ tick.landing = "failed" /\ ~tick.raised /\ frame.phase = "input"
    /\ ship.nearest_body # 0
    /\ ship.resonance_integrity = tick.integrity_before - 100

\* the countdown ran out with no body in range: the tick raised
LandingRaised ==
    /\ tick.landing = "failed" /\ tick.raised /\ frame.phase = "crashed"
    /\ ship.nearest_body = 0

\* the countdown ran out with the conditions met
LandingSucceeded ==
    /\ tick.landing = "landed" /\ ship.landed_mode
    /\ InPool(audio, ship.biome_sound)

InMenu(s) == s.hud_mode \/ s.upgrade_mode \/ s.starmap_mode \/ s.rift_selection_mode

\* in flight outside the menus, a planet the nearest body in range and every
\* dimension in perfect resonance: the mean is 1, the most it can be
BestForLanding ==
    /\ frame.phase = "input" /\ ~ship.landed_mode /\ ~InMenu(ship)
    /\ ship.near_object /\ ship.nearest_body # 0
    /\ CelestialBodies[ship.nearest_body].type = "planet"
    /\ MeanLevelMilli(ship.resonance_levels) = 1000
    /\ ship.landing_timer <= 0

\* C22: landing is achievable on a planet of every exoplanet type: with the
\* ship beside the planet and the mean resonance at 1, pressing L starts the
\* landing countdown
C22_LandingAchievable ==
    BestForLanding =>
        handle_input(World, Key("l", {})).s.landing_timer = LANDING_TIME * 1000

\* L has started the countdown beside an ocean world
CountdownStarted ==
    /\ frame.phase = "update" /\ ship.landing_timer = LANDING_TIME * 1000
    /\ ship.exoplanet_type = "ocean_world"

\* L beside a hot Jupiter with the mean resonance at 1: no countdown, and
\* integrity lost
HotJupiterRefused ==
    /\ frame.phase = "update" /\ ship.exoplanet_type = "hot_jupiter"
    /\ MeanLevelMilli(ship.resonance_levels) = 1000
    /\ ship.landing_timer = 0 /\ ship.resonance_integrity = 990

\* C26: Ctrl+L outside a menu, in flight or landed, loads the saved game (with
\* no file it only says so) and does nothing else: the landing countdown and,
\* unless the file restores it, the integrity stay as they were
C26_CtrlLLoadsOnly ==
    (frame.phase = "input" /\ ~InMenu(ship)) =>
        LET w == handle_input(World, Ctrl("l"))
        IN  /\ w.s.landing_timer = ship.landing_timer
            /\ w.s.resonance_integrity = IF ship.savegame = <<>> THEN ship.resonance_integrity
                                         ELSE ship.savegame[1].resonance_integrity
            /\ Len(w.s.speak_log) = Len(ship.speak_log) + 1
            /\ w.s.speak_log[Len(w.s.speak_log)].msg =
                   IF ship.savegame = <<>> THEN "No save file found." ELSE "Game loaded."
            /\ ship.savegame # <<>> =>
                   /\ w.s.position = ship.savegame[1].position
                   /\ w.s.needs_universe_regeneration

\* Ctrl+L in flight with a save file on disk has started a landing countdown
\* and loaded nothing
CtrlLStartsLanding ==
    /\ frame.phase = "update" /\ ship.savegame # <<>>
    /\ ship.landing_timer = LANDING_TIME * 1000
    /\ ship.position # ship.savegame[1].position
    /\ ~ship.needs_universe_regeneration

\* Ctrl+L in flight away from every body has cost integrity and loaded nothing
CtrlLCostsIntegrity ==
    /\ frame.phase = "update" /\ ship.savegame # <<>>
    /\ ~ship.near_object /\ ship.resonance_integrity = 990
    /\ ~ship.needs_universe_regeneration

\* ------------------------------------------------------------- failed loads
\* savegame.pkl of a version that did not save the celestial bodies yet
OldSave == [SavedState(Flying(Drive0).s) EXCEPT !.keys = @ \ {"stars", "planets", "nebulae"}]

\* a file that pickle.load rejects: no key is read
Unreadable == [SavedState(Flying(Drive0).s) EXCEPT !.keys = {}]

LoadFiles == {<<>>, <<Unreadable>>, <<OldSave>>, <<SavedState(Flying(Drive0).s)>>}

LoadScenarios == {LandedWithRift(file, 0) : file \in LoadFiles}

LoadInputs == {Key("none", {}), Ctrl("l"), Ctrl("s")}

LoadInput == InputStep(LoadInputs, MaxLoadFrames)

InitLoad == InitWith(LoadScenarios)

NextLoad == LoadInput \/ SimTick

SpecLoad == InitLoad /\ [][NextLoad]_vars

LastSpoken(s) == IF s.speak_log = <<>> THEN "" ELSE s.speak_log[Len(s.speak_log)].msg

\* C23: a load_game that fails (file missing, unreadable or incomplete) is
\* announced and leaves the game state as it was before the call: the ship
\* but for the record of what was spoken, and the sound pool
C23_FailedLoadChangesNothing ==
    (frame.phase = "input" /\ ship.landed_mode /\ ~InMenu(ship)) =>
        LET w == load_game(World)
        IN  LastSpoken(w.s) = "No save file found." =>
                /\ Len(w.s.speak_log) = Len(ship.speak_log) + 1
                /\ [w.s EXCEPT !.speak_log = ship.speak_log, !.last_spoken = ship.last_spoken] = ship
                /\ w.a = audio

\* Ctrl+L with an incomplete file has failed after overwriting position,
\* drive and integrity
LoadFailedHalfway ==
    /\ frame.phase = "update" /\ LastSpoken(ship) = "No save file found."
    /\ ship.savegame = <<OldSave>>
    /\ ship.position = OldSave.position /\ ship.r_drive = OldSave.r_drive
    /\ ~ship.needs_universe_regeneration

\* Ctrl+L without a file or with an unreadable one has failed and changed
\* nothing
LoadFailedClean ==
    /\ frame.phase = "update" /\ LastSpoken(ship) = "No save file found."
    /\ ship.savegame = <<Unreadable>>
    /\ ship.position # Unreadable.position /\ ship.r_drive # Unreadable.r_drive

\* ------------------------------------------------------ failing microphone
\* sing mode on (H) in tuning mode, the pitch thread about to test its loop
Singing ==
    LET w == Flying(Base0)
    IN  [w EXCEPT !.s.tuning_mode = TRUE, !.s.selected_dim = 1, !.s.sing_mode = TRUE,
                  !.s.sing_active = TRUE, !.s.pitch_thread = "check"]

SingScenarios == {Singing}

SingInputs == {Key("none", {}), Key("h", {})}

\* the microphone fails, hears a hum in the range
SingPitches == {MicFailure, 523}

SingInput == InputStep(SingInputs, MaxSingFrames)

SingPitchDetect == PitchDetectFrom(SingPitches, MaxSingPitches)

InitSing == InitWith(SingScenarios)

NextSing == SingInput \/ SimTick \/ PitchCheck \/ SingPitchDetect

SpecSing == InitSing /\ [][NextSing]_vars

\* the requests to speak of the failure, and those of them that reached the
\* screen reader
FailureRequests == {k \in 1..Len(ship.speak_log) : ship.speak_log[k].msg = PitchFailureText}

FailuresAnnounced == {k \in FailureRequests : ship.speak_log[k].forwarded}

\* C24 as stated: the failure is announced exactly once, whether that is once
\* for every failed detection or once for the fault
C24_AnnouncedOnce ==
    \/ Cardinality(FailuresAnnounced) = Cardinality(FailureRequests)
    \/ (FailureRequests # {} => Cardinality(FailuresAnnounced) = 1)

\* a round of the pitch thread has made a request to speak of the failure
PitchFailed ==
    /\ frame'.pitches = frame.pitches + 1
    /\ Len(ship'.speak_log) = Len(ship.speak_log) + 1
    /\ ship'.speak_log[Len(ship'.speak_log)].msg = PitchFailureText

\* C24: every round of the pitch thread ends back at the loop test, with the
\* tick loop where it was; a failed detection requests the announcement once,
\* forwarded unless the same text was forwarded within the cooldown, and
\* changes no drive frequency; any other round changes at most the selected
\* dimension's drive frequency, to a value within [200, 800]
C24_PitchFailure ==
    [][frame'.pitches = frame.pitches + 1 =>
          /\ ship'.pitch_thread = "check"
          /\ frame'.phase = frame.phase /\ tick' = tick
          /\ PitchFailed =>
                /\ ship'.r_drive = ship.r_drive
                /\ ship'.speak_log[Len(ship'.speak_log)].forwarded = MayForward(ship, PitchFailureText)
          /\ ~PitchFailed =>
                /\ \A i \in Dims : i # ship.selected_dim => ship'.r_drive[i] = ship.r_drive[i]
                /\ ship'.r_drive # ship.r_drive =>
                       /\ ship'.r_drive[ship.selected_dim] >= Hz(FREQUENCY_MIN)
                       /\ ship'.r_drive[ship.selected_dim] <= Hz(FREQUENCY_MAX)
          /\ Len(ship'.speak_log) <= Len(ship.speak_log) + 1]_vars

\* the microphone has failed three times in sing mode: announced, dropped
\* within the cooldown, announced again a frame later; the thread goes on
C24_Witness ==
    /\ Cardinality(FailureRequests) = 3 /\ Cardinality(FailuresAnnounced) = 2
    /\ ship.pitch_thread = "check" /\ ship.sing_active
    /\ ship.r_drive = Singing.s.r_drive

\* a hum in the range after a failure has set the selected dimension
HumAfterFailure ==
    /\ FailureRequests # {}
    /\ ship.r_drive[ship.selected_dim] = Hz(523)
    /\ LastSpoken(ship) = "Tuned to hummed pitch 523.00 Hz."

\* ---------------------------------------------------------- resonance width
\* landed with the upgrade menu open on the width upgrade and crystals to
\* spend; the file on disk was saved before any upgrade
UpgradeMenu(index) ==
    LET w == Landed("harmonic", "chord", 8)
    IN  [w EXCEPT !.s.upgrade_mode = TRUE, !.s.hud_index = index, !.s.hud_len = Len(UPGRADE_COSTS),
                  !.s.savegame = <<SavedState(w.s)>>]

\* landed after one width upgrade, the file saved before it
Upgraded ==
    LET w == Landed("harmonic", "chord", 7)
    IN  [w EXCEPT !.s.resonance_width = @ + Scale(Hz(1), Rat(PHI.p, 2 * PHI.q)),
                  !.s.savegame = <<SavedState(w.s)>>]

\* in flight at the Halls of Amenti with the twelve keys
AtAmenti == [Flying(Base0) EXCEPT !.s.at_amenti = TRUE]

WidthScenarios ==
    {UpgradeMenu(0), UpgradeMenu(5), Upgraded, AtAmenti,
     Landed("harmonic", "chord", ASCENSION_CRYSTAL_THRESHOLD - 1)}

WidthInputs == {Key("none", {}), Key("return", {}), Key("u", {}), Key("x", {}), Ctrl("l")}

WidthInput == InputStep(WidthInputs, MaxWidthFrames)

InitWidth == InitWith(WidthScenarios)

NextWidth == WidthInput \/ SimTick

SpecWidth == InitWidth /\ [][NextWidth]_vars

\* C25 as stated: the resonance width is positive and no step lowers it
C25_OnlyIncreases ==
    /\ [](ship.resonance_width > 0)
    /\ [][ship'.resonance_width >= ship.resonance_width]_vars

\* C25: the resonance width is never below its initial 10.0, so the
\* resonance division is defined; a step that lowers it is a load_game, which
\* sets it to the width in the save file
C25_WidthPositive ==
    /\ [](ship.resonance_width >= Hz(RESONANCE_WIDTH_BASE))
    /\ [][ship'.resonance_width < ship.resonance_width =>
              /\ ship.savegame # <<>>
              /\ ship'.resonance_width = ship.savegame[1].resonance_width
              /\ LastSpoken(ship') = "Game loaded."]_vars

\* Return in the upgrade menu has bought the width upgrade for one crystal
C25_Witness ==
    /\ frame.phase = "update" /\ ship.upgrade_mode /\ ship.crystals_collected = 7
    /\ ship.resonance_width = Hz(RESONANCE_WIDTH_BASE) + Scale(Hz(1), Rat(PHI.p, 2 * PHI.q))

\* load_game has put the width back to the 10.0 of the save file
WidthLoadedLower ==
    /\ LastSpoken(ship) = "Game loaded."
    /\ ship.resonance_width = Hz(RESONANCE_WIDTH_BASE)
    /\ ship.savegame = Upgraded.s.savegame

\* the Halls of Amenti have widened the resonance by PHI
AmentiWidened ==
    /\ ship.visited_amenti /\ ship.resonance_width = Scale(Hz(RESONANCE_WIDTH_BASE), PHI)

\* the twenty-first crystal has ascended the ship: Golden Harmony
AscensionWidened ==
    /\ ship.crystals_collected = ASCENSION_CRYSTAL_THRESHOLD /\ ship.golden_harmony_active
    /\ ship.resonance_width = Scale(Hz(RESONANCE_WIDTH_BASE), PHI)

\* -------------------------------------------------------- autopilot arrival
\* locked from the starmap on a body at an offset from the ship
LockedOn(body, offset) ==
    [s |-> Settled([Ship(Base0, Base0)
               EXCEPT !.simulation_time = 10000, !.last_harmonic_check = 9990,
                      !.position = [i \in Dims |-> CelestialBodies[body].pos[i] - offset[i]],
                      !.locked_target = body, !.lock_sound = 1]),
     a |-> Play(NewAudio, "beep", TRUE)]

\* 11 units short of the last body, at 99 in the fifth dimension; 1.3 units
\* short of the planet
ArriveScenarios == {LockedOn(4, Vec(0, 0, 0, 0, 11000)), LockedOn(2, Vec(1200, 0, 0, 500, 0))}

\* no further player input
ArriveInputs == {Key("none", {})}

ArriveInput == InputStep(ArriveInputs, MaxArriveFrames)

InitArrive == InitWith(ArriveScenarios)

NextArrive == ArriveInput \/ SimTick

SpecArrive == InitArrive /\ [][NextArrive]_vars

\* the positions self.position can take after the wrap of ship.py 2133
WrapRange == [lo |-> -100000, hi |-> 100000]

\* C27: the autopilot brings the ship within 1.0 of every body it can lock.
\* What a finite run can refute of that: whenever a body is locked, some
\* position inside the wrap-around range is within 1.0 of it, which needs
\* every coordinate of the body to be less than 1.0 outside the range
C27_ArrivalPossible ==
    (ship.locked_target \in Bodies /\ ~ship.locked_is_rift) =>
        \A i \in Dims :
            /\ CelestialBodies[ship.locked_target].pos[i] > WrapRange.lo - 1000
            /\ CelestialBodies[ship.locked_target].pos[i] < WrapRange.hi + 1000

\* the autopilot has flown the ship over the edge at 100 towards the body at
\* 110: it is now at the other end of the range, over 200 from the target
WrappedPastTarget ==
    /\ ship.locked_target = 4 /\ tick.auto = "interpolate"
    /\ ship.position[4] < 0
    /\ NormSq(ship) > 2000 * 2000

\* the ship never comes within 10 of the body at 110
NeverArrives == ship.locked_target = 4 => NormSq(ship) >= 100 * 100

\* the autopilot has reached the planet and cleared the lock
PlanetReached ==
    /\ tick.auto = "arrived" /\ ship.locked_target = 0 /\ ship.lock_sound = 0

\* ---------------------------------------------------------------- rift entry
\* entry_log is history: for every call of enter_rift, whether the rift was in
\* self.rifts, the squared distance to it and the mean resonance at the call
\* locked on a rift 19.9 units away, inside the tolerance of 20, the charge
\* sequence about to end
ChargingAtEdge ==
    [RiftLock(WithRift(Flying(Base0), Vec(0, -14100, -14100, 0, 0), 20000, "boost"))
        EXCEPT !.s.rift_charge_timer = 500, !.s.approached_rift_announced = TRUE]

\* landed on the planet with the lock on a rift 5 units away still held, and
\* the save file written on the planet before the rift appeared
LandedRiftLocked ==
    LET w == RiftLock(WithRift(Landed("harmonic", "chord", 0),
                               [i \in Dims |-> CelestialBodies[2].pos[i] + Vec(3000, 4000, 0, 0, 0)[i]],
                               20000, "boost"))
    IN  [w EXCEPT !.s.savegame = <<SavedState(Landed("harmonic", "chord", 0).s)>>]

\* Ctrl+L on the planet has replaced the rift list by the saved one; the lock
\* on the rift of this flight is untouched
StaleRiftLock == load_game(LandedRiftLocked)

EntryScenarios == {ChargingAtEdge, StaleRiftLock, RiftInTolerance}

EntryInputs ==
    {Key("none", {}), Key("t", {})} \cup {[Key("e", {}) EXCEPT !.warp = warp] : warp \in Warps}

EntryInput == InputStep(EntryInputs, MaxEntryFrames)

InitEntry == InitWith(EntryScenarios)

NextEntry == EntryInput \/ SimTick

SpecEntry == InitEntry /\ [][NextEntry]_vars

\* C28: at every call of enter_rift, by the E key or by the end of the charge
\* countdown, the rift entered is in the ship's rift list, the ship is within
\* RIFT_ALIGNMENT_TOLERANCE of it and the mean resonance is above
\* RIFT_ENTRY_RES_THRESHOLD
C28_EntryConditions ==
    \A k \in 1..Len(ship.entry_log) :
        /\ ship.entry_log[k].listed
        /\ ship.entry_log[k].dist_sq < (RIFT_ALIGNMENT_TOLERANCE * 10) * (RIFT_ALIGNMENT_TOLERANCE * 10)
        /\ ship.entry_log[k].mean * RIFT_ENTRY_RES_THRESHOLD.q > 1000 * RIFT_ENTRY_RES_THRESHOLD.p

\* the charge countdown has ended with the ship nudged out of the tolerance:
\* the rift is entered from more than 20 units
EnteredBeyondTolerance ==
    \E k \in 1..Len(ship.entry_log) :
        /\ ship.entry_log[k].listed
        /\ ship.entry_log[k].dist_sq >= (RIFT_ALIGNMENT_TOLERANCE * 10) * (RIFT_ALIGNMENT_TOLERANCE * 10)

\* E after take-off has entered the rift of the old lock, which load_game
\* dropped from the list
EnteredUnlisted ==
    \E k \in 1..Len(ship.entry_log) : ~ship.entry_log[k].listed

\* E inside the tolerance with the mean resonance above the threshold has
\* entered a rift of the list
EnteredByKey ==
    /\ frame.phase = "update" /\ Len(ship.entry_log) = 1
    /\ ship.entry_log[1].listed
    /\ ship.entry_log[1].dist_sq < (RIFT_ALIGNMENT_TOLERANCE * 10) * (RIFT_ALIGNMENT_TOLERANCE * 10)
    /\ ship.entry_log[1].mean * RIFT_ENTRY_RES_THRESHOLD.q > 1000 * RIFT_ENTRY_RES_THRESHOLD.p

\* ------------------------------------------------------ the lock on a rift
\* landed with the rift lock held, one crystal short of the ascension
NearAscension ==
    [LandedRiftLocked EXCEPT !.s.crystals_collected = ASCENSION_CRYSTAL_THRESHOLD - 1,
                             !.s.savegame = <<>>]

LockScenarios == {LandedRiftLocked, NearAscension, RiftNear, RiftFading, RiftInTolerance}

LockInputs ==
    {Key("none", {}), Key("return", {}), Key("x", {}), Ctrl("l")}
        \cup {[Key("e", {}) EXCEPT !.warp = warp] : warp \in Warps}

LockInput == InputStep(LockInputs, MaxLockFrames)

InitLock == InitWith(LockScenarios)

NextLock == LockInput \/ SimTick

SpecLock == InitLock /\ [][NextLock]_vars

\* C29: locked_is_rift is true exactly when locked_rift is set, and a set
\* locked_rift is a rift of the ship's current rift list with locked_target
\* its position
C29_LockConsistent ==
    /\ ship.locked_is_rift <=> ship.locked_rift # 0
    /\ ship.locked_rift # 0 =>
          /\ \E k \in 1..Len(ship.rifts) : ship.rifts[k] = ship.locked_rift
          /\ ship.locked_target = -ship.locked_rift

\* Ctrl+L has replaced the rift list; the lock is on a rift of the old list
StaleAfterLoad ==
    /\ LastSpoken(ship) = "Game loaded."
    /\ ship.locked_is_rift /\ ship.locked_rift # 0
    /\ \A k \in 1..Len(ship.rifts) : ship.rifts[k] # ship.locked_rift

\* the ascension has emptied the rift list; the lock is still set
StaleAfterAscension ==
    /\ ship.golden_harmony_active /\ ship.rifts = <<>>
    /\ ship.locked_is_rift /\ ship.locked_rift # 0

\* Return in the rift menu has locked a rift of the list
LockedFromMenu ==
    /\ frame.phase = "update" /\ ship.lock_log = <<"lock">> /\ ship.rift_items # <<>>
    /\ C29_LockConsistent /\ ship.locked_rift # 0

\* the locked rift has faded or was entered, and the lock went with it
LockReleased ==
    /\ ship.lock_log # <<>> /\ ship.lock_log[Len(ship.lock_log)] \in {"fade", "enter"}
    /\ ~ship.locked_is_rift /\ ship.locked_rift = 0 /\ ship.locked_target = 0

\* ------------------------------------------------------------ the lock tone
\* the looping beeps of the pool: the effects lock_on_starmap_item and
\* lock_on_rift_item create
LockTones(a) ==
    {a.active_sound_effects[k] : k \in 1..Len(a.active_sound_effects)}
        \cap {id \in 1..Len(a.fx) : a.fx[id].loop /\ a.fx[id].waveform \in {"beep", "rift_beep"}}

\* locked on the planet 8 units away, a rift nearby
PlanetLockRiftNear ==
    WithRift(LockedOn(2, Vec(8000, 0, 0, 0, 0)), Vec(3000, 4000, 0, 4854, 6472), 20000, "boost")

ToneScenarios == {PlanetLockRiftNear, AlmostThere, RiftFading, RiftInTolerance, RiftNear}

ToneInputs ==
    {Key("none", {}), Key("m", {}), Key("return", {})}
        \cup {[Key("e", {}) EXCEPT !.warp = warp] : warp \in Warps}

ToneInput == InputStep(ToneInputs, MaxToneFrames)

InitTone == InitWith(ToneScenarios)

NextTone == ToneInput \/ SimTick

SpecTone == InitTone /\ [][NextTone]_vars

\* C30: at most one looping lock tone is in the sound pool, one is there only
\* while a target is locked, and every lock tone of the pool is the ship's
\* lock_sound
C30_OneLockTone ==
    /\ Cardinality(LockTones(audio)) <= 1
    /\ LockTones(audio) # {} => ship.locked_target # 0
    /\ \A id \in LockTones(audio) : id = ship.lock_sound

\* locked on the planet, E and Return have locked the rift: the tone of the
\* planet lock plays on beside the new one
ToneLeftBehind ==
    /\ ship.lock_log = <<"lock">> /\ ship.locked_is_rift
    /\ Cardinality(LockTones(audio)) = 2
    /\ \E id \in LockTones(audio) : id # ship.lock_sound

\* M and Return on "Unlock target" have taken the tone out of the pool
ToneUnlocked ==
    /\ ship.lock_log = <<"unlock">> /\ ship.locked_target = 0 /\ LockTones(audio) = {}

\* arrival, fade and entry have taken the tone out of the pool
ToneReleased ==
    \A how \in {"arrived", "fade", "enter"} :
        \/ ship.lock_log = <<>>
        \/ ship.lock_log[Len(ship.lock_log)] # how
        \/ ship.locked_target = 0 /\ LockTones(audio) = {}

ToneArrived == ship.lock_log # <<>> /\ ship.lock_log[Len(ship.lock_log)] = "arrived"

ToneFaded == ship.lock_log # <<>> /\ ship.lock_log[Len(ship.lock_log)] = "fade"

ToneEntered == ship.lock_log # <<>> /\ ship.lock_log[Len(ship.lock_log)] = "enter"

\* C31: a locked target always has its lock sound: locked_target is set only
\* together with lock_sound and lock_sound is cleared only together with
\* locked_target, so the autopilot finds a SoundEffect object to update
C31_LockHasSound ==
    ship.locked_target # 0 => ship.lock_sound \in 1..Len(audio.fx)

\* the autopilot has steered towards the locked target for a tick, the lock
\* sound set and its SoundEffect object in existence
C31_Witness ==
    /\ frame.phase = "input" /\ tick.kind = "flight" /\ tick.auto \in {"snap", "interpolate"}
    /\ ship.locked_target # 0 /\ ship.lock_sound \in 1..Len(audio.fx)

\* Return in the rift menu has locked a rift, with its lock sound
LockedWithSound ==
    /\ frame.phase = "update" /\ ship.lock_log = <<"lock">> /\ ship.rift_items # <<>>
    /\ ship.locked_is_rift /\ ship.locked_target # 0 /\ ship.lock_sound = Len(audio.fx)

\* ------------------------------------------------------ collecting crystals
\* anchored a moment ago on a planet with count crystals, the drive as it was
OnPlanet(count) == generate_crystals(Landed("harmonic", "chord", 0), "harmonic", count)

\* the first eight of nine crystals collected, the cursor back at the centre
EightCollected ==
    [OnPlanet(9) EXCEPT !.s.locked_crystals = 1..8, !.s.crystals_collected = 8]

CrystalScenarios == {OnPlanet(count) : count \in CrystalCounts} \cup {EightCollected}

CrystalInputs == {Key("x", {}), Key("u", {}), Key("w", {"w"}), Key("a", {"a"})}

CrystalInput == InputStep(CrystalInputs, MaxCrystalFrames)

InitCrystal == InitWith(CrystalScenarios)

NextCrystal == CrystalInput \/ SimTick

SpecCrystal == InitCrystal /\ [][NextCrystal]_vars

GridPoints == (-GRID_SIZE..GRID_SIZE) \X (-GRID_SIZE..GRID_SIZE)

\* collect_crystal takes crystal k with the cursor at p: k is the first of the
\* crystals nearest to p and is within one grid square (ship.py 1152-1154)
Takes(s, p, k) ==
    LET at == [s EXCEPT !.cursor_pos = p]
    IN  NearestIn(at, CrystalIds(at)) = k /\ CursorDistSq(at, k) <= 1000 * 1000

\* C32: on every planet, whatever its crystal count, all crystals can be
\* collected, so that U opens the attunement menu: every crystal still to
\* collect is the one collect_crystal takes at some cursor position
C32_AllCollectable ==
    ship.landed_mode =>
        \A k \in CrystalIds(ship) \ ship.locked_crystals : \E p \in GridPoints : Takes(ship, p, k)

\* on a planet of nine crystals the ninth is never collected and U never
\* opens the attunement menu
NinthOutOfReach ==
    Len(ship.crystal_positions) = 9 => 9 \notin ship.locked_crystals /\ ~ship.upgrade_mode

\* X at the centre of a planet of nine crystals has collected the first
FirstOfNineCollected ==
    /\ Len(ship.crystal_positions) = 9 /\ ship.locked_crystals = {1} /\ ship.crystals_collected = 1

\* X with eight of nine collected has collected nothing
NinthRefused ==
    /\ frame.phase = "update" /\ frame.n = 0
    /\ ship.cursor_pos = <<0, 0>> /\ ship.locked_crystals = 1..8 /\ ship.crystals_collected = 8

\* the only crystal of the planet is collected and U has opened the
\* attunement menu
AttunementOpened ==
    /\ Len(ship.crystal_positions) = 1 /\ ship.locked_crystals = {1} /\ ship.upgrade_mode

\* ------------------------------------------------- the universe regenerated
\* savegame.pkl written in an earlier run of the program, in its universe
EarlierSave == <<[SavedState(Flying(Base0).s) EXCEPT !.stars = Universe("earlier", 1)]>>

UniverseScenarios ==
    {LandedWithRift(EarlierSave, 0), LandedWithRift(EarlierSave, ASCENSION_CRYSTAL_THRESHOLD - 1)}

UniverseInputs == {Key("none", {}), Key("x", {}), Ctrl("l"), Ctrl("s")}

UniverseInput == InputStep(UniverseInputs, MaxUniverseFrames)

InitUniverse == InitWith(UniverseScenarios)

NextUniverse == UniverseInput \/ SimTick

SpecUniverse == InitUniverse /\ [][NextUniverse]_vars

\* C33: the loop iteration of an ascension generates a new universe, which
\* replaces the lists of the loop and of the ship, and clears
\* needs_universe_regeneration; the iteration of a load_game installs the
\* lists of the save
C33_Regeneration ==
    [][(frame.phase = "update" /\ frame'.phase = "input" /\ ship.needs_universe_regeneration)
           => /\ ~ship'.needs_universe_regeneration
              /\ ship.regen_cause = "ascension"
                    => /\ frame'.generated = frame.generated + 1
                       /\ frame'.universe = Universe("this", frame'.generated)
                       /\ ship'.stars = frame'.universe
              /\ ship.regen_cause = "load"
                    => frame'.universe = ship.savegame[1].stars]_vars

\* the iteration after the ascension is over and the loop still runs on the
\* universe the program started with
SameUniverseAfterAscension ==
    /\ frame.phase = "input" /\ ship.regen_cause = "ascension" /\ ship.golden_harmony_active
    /\ ~ship.needs_universe_regeneration
    /\ frame.universe = FirstUniverse /\ frame.generated = 1

\* the iteration after Ctrl+L is over and the loop runs on the universe of
\* the save
SavedUniverseInstalled ==
    /\ frame.phase = "input" /\ ship.regen_cause = "load" /\ ~ship.needs_universe_regeneration
    /\ frame.universe = Universe("earlier", 1) /\ ship.stars = frame.universe

\* no iteration has generated a universe
NothingGenerated == frame.generated = 1

\* ------------------------------------------------------------ the menu modes
MenuKeys == {"m", "u", "e"}

\* two KEYDOWN events in the list of one frame
Both(first, second) == [Key(first, {}) EXCEPT !.then = second]

MenuScenarios == {RiftNear, Landed("harmonic", "chord", 0), OnPlanet(1)}

MenuInputs ==
    {Key(k, {}) : k \in MenuKeys \cup {"none", "x"}}
        \cup {Both(first, second) : first \in MenuKeys, second \in MenuKeys}

MenuStep == InputStep(MenuInputs, MaxMenuFrames)

InitMenu == InitWith(MenuScenarios)

NextMenu == MenuStep \/ SimTick

SpecMenu == InitMenu /\ [][NextMenu]_vars

MenusOpen(s) ==
    {m \in {"hud", "upgrade", "starmap", "rift"} :
        \/ m = "hud" /\ s.hud_mode
        \/ m = "upgrade" /\ s.upgrade_mode
        \/ m = "starmap" /\ s.starmap_mode
        \/ m = "rift" /\ s.rift_selection_mode}

\* C34: at most one of hud_mode, upgrade_mode, starmap_mode and
\* rift_selection_mode is set, whatever key events a frame delivers
C34_OneMenu == Cardinality(MenusOpen(ship)) <= 1

\* M and U in the events of one frame have opened the starmap and the HUD
StarmapAndHud == ship.starmap_mode /\ ship.hud_mode

\* U and E in one frame, in flight with a rift about: the HUD and the rift
\* menu
HudAndRift == ship.hud_mode /\ ship.rift_selection_mode

\* U on a planet with every crystal collected has opened the attunement
\* menu alone, E in flight the rift menu alone
AttunementAlone == MenusOpen(ship) = {"upgrade"}

RiftMenuAlone == MenusOpen(ship) = {"rift"}

\* ---- frequency presets (ship.py 535-566) ----

PresetSlots == {1, 2}

\* slot 1 stored in flight in tuning mode, with a save file of an earlier flight that has
\* no presets
Stored == handle_input(WithSave(Tuned(Hz(440))), Digit(1, "ctrl"))

\* the overwrite warning for slot 1 given, and 2.5 s flown since
Warned ==
    LET w == handle_input(Stored, Digit(1, "ctrl"))
    IN  [w EXCEPT !.s.simulation_time = @ + 2500]

\* slot 1 stored on a planet
StoredLanded == handle_input(WithSave(Landed("harmonic", "chord", 0)), Digit(1, "ctrl"))

PresetScenarios == {Stored, Warned, StoredLanded}

PresetInputs ==
    {Key("up", {"up"}), Ctrl("l"), Digit(1, "ctrl"), Digit(1, "shift"), Digit(2, "ctrl")}

PresetInput == InputStep(PresetInputs, MaxPresetFrames)

InitPreset == InitWith(PresetScenarios)

NextPreset == PresetInput \/ SimTick

SpecPreset == InitPreset /\ [][NextPreset]_vars

\* the step changes or removes the preset in the occupied slot k
PresetChanged(k) ==
    /\ k \in DOMAIN ship.frequency_presets
    /\ \/ k \notin DOMAIN ship'.frequency_presets
       \/ ship'.frequency_presets[k] # ship.frequency_presets[k]

\* the step is the Ctrl+k press that confirms a warning for k less than 3 s
\* old, and stores the drive
Confirmed(k) ==
    /\ ship.pending_preset_overwrite = k
    /\ ship'.simulation_time - ship.pending_preset_time < 3000
    /\ k \in DOMAIN ship'.frequency_presets
    /\ ship'.frequency_presets[k] = ship.r_drive

\* the step is load_game putting the table of the save file in place
TableLoaded ==
    /\ ship.savegame # <<>>
    /\ ship'.frequency_presets =
           IF "frequency_presets" \in ship.savegame[1].keys
           THEN ship.savegame[1].frequency_presets ELSE <<>>

\* Ctrl+slot on an empty slot stores the drive at once, and Shift+slot on an
\* occupied one makes the drive the stored frequencies
SavesAndRecalls ==
    \A k \in PresetSlots :
        IF k \in DOMAIN ship.frequency_presets
        THEN DigitKey(ship, Digit(k, "shift")).r_drive = ship.frequency_presets[k]
        ELSE LET s == DigitKey(ship, Digit(k, "ctrl"))
             IN  k \in DOMAIN s.frequency_presets /\ s.frequency_presets[k] = ship.r_drive

\* C35: the preset in an occupied slot changes only on the Ctrl+slot press
\* that confirms a warning for that slot less than 3 s old, or when load_game
\* replaces the whole table by the saved one; Ctrl+slot on an empty slot
\* stores at once, and a recall sets the drive to exactly what is stored
C35_Presets ==
    [][/\ \A k \in PresetSlots : PresetChanged(k) => Confirmed(k) \/ TableLoaded
       /\ SavesAndRecalls]_vars

\* C35 as stated: an occupied slot changes on a confirmed Ctrl+slot only
C35_OnlyConfirmed ==
    [][/\ \A k \in PresetSlots : PresetChanged(k) => Confirmed(k)
       /\ SavesAndRecalls]_vars

\* slot 1 overwritten after tuning: the selected dimension is higher than in
\* the preset of the scenario
PresetOverwritten ==
    /\ ~ship.landed_mode
    /\ 1 \in DOMAIN ship.frequency_presets
    /\ ship.frequency_presets[1][ship.selected_dim] > Stored.s.frequency_presets[1][ship.selected_dim]
    /\ ship.pending_preset_overwrite = 0

\* the warning of the scenario ran out, and Ctrl+1 warned again
WarnedAgain ==
    /\ ship.pending_preset_overwrite = 1
    /\ ship.pending_preset_time > 13000
    /\ ship.frequency_presets = Stored.s.frequency_presets

\* Ctrl+L on the planet has emptied slot 1
PresetLostOnLoad ==
    /\ frame.n = 0 /\ frame.phase = "update"
    /\ ship.frequency_presets = <<>>
    /\ ship.r_drive = Drive0
    /\ ship.landed_mode

\* slot 2 was empty and Ctrl+2 stored the drive
SecondSlotStored == 2 \in DOMAIN ship.frequency_presets

\* ---- spending crystals (ship.py 1254-1271, 1699-1708) ----

FlyingWith(crystals) == [Flying(Base0) EXCEPT !.s.crystals_collected = crystals]

RECURSIVE Anchored(_, _)
\* n anchors set, one P after the other
Anchored(w, n) == IF n = 0 THEN w ELSE Anchored(create_portal_anchor(w), n - 1)

\* the attunement menu open at an upgrade, with a balance
UpgradeWith(index, crystals) ==
    [Landed("harmonic", "chord", crystals)
        EXCEPT !.s.upgrade_mode = TRUE, !.s.hud_index = index, !.s.hud_len = Len(UPGRADE_COSTS)]

SpendScenarios ==
    {FlyingWith(c) : c \in {0, 2, 7}}
        \cup {Anchored(FlyingWith(6 * PORTAL_ANCHOR_COST + c), 6) : c \in {2, 4}}
        \cup {UpgradeWith(0, 2), UpgradeWith(3, 4), UpgradeWith(5, 7), UpgradeWith(5, 8)}

SpendInputs == {Key("none", {}), Key("p", {}), Key("return", {}), Key("down", {})}

SpendInput == InputStep(SpendInputs, MaxSpendFrames)

InitSpend == InitWith(SpendScenarios)

NextSpend == SpendInput \/ SimTick

SpecSpend == InitSpend /\ [][NextSpend]_vars

\* the step has asked to speak msg
Announced(msg) ==
    /\ Len(ship'.speak_log) = Len(ship.speak_log) + 1
    /\ ship'.speak_log[Len(ship'.speak_log)].msg = msg

\* the step took crystals for the upgrade under the cursor, which the
\* balance covered
PaidUpgrade ==
    /\ ship.upgrade_mode
    /\ ship.crystals_collected >= UPGRADE_COSTS[ship.hud_index + 1]
    /\ ship'.crystals_collected = ship.crystals_collected - UPGRADE_COSTS[ship.hud_index + 1]

\* the step took crystals for one more anchor, which the balance covered
PaidAnchor ==
    /\ ship.crystals_collected >= PORTAL_ANCHOR_COST
    /\ ship'.crystals_collected = ship.crystals_collected - PORTAL_ANCHOR_COST
    /\ Len(ship'.portal_anchors) = Len(ship.portal_anchors) + 1
    /\ Len(ship'.portal_anchors) <= MAX_PORTAL_ANCHORS

\* the step left the ship as it was but for the clock, the note that a key
\* was pressed, and the speech
OnlySpoke(msg) ==
    \E inp \in SpendInputs :
        ship' = Speak(NoteInput([ship EXCEPT !.simulation_time = ship'.simulation_time], inp), msg)

AnchorRefused ==
    /\ ship.speak_log # <<>>
    /\ ship.speak_log[Len(ship.speak_log)].msg = "Insufficient crystals. Need 3 to create portal anchor."

\* the balance was spent to the last crystal
SpentToZero ==
    /\ ship.crystals_collected = 0
    /\ \E k \in 1..Len(ship.speak_log) : ship.speak_log[k].msg = "Resonance Width upgraded. Cost: 1 crystals."

\* the seventh anchor was set and the eighth refused
AnchorsFull ==
    /\ Len(ship.portal_anchors) = MAX_PORTAL_ANCHORS
    /\ ship.speak_log[Len(ship.speak_log)].msg
           = "Maximum 7 portal anchors reached. Use an existing anchor first."

\* two anchors set from a balance of seven
TwoAnchors == Len(ship.portal_anchors) = 2 /\ ship.crystals_collected = 1

\* ---- the two harmonic detections (audio_system.py 360-393, ship.py 1552-1585) ----

\* drives within [200, 800] Hz: dimension 2 sweeps the whole range in steps
\* of 1 / FreqScale Hz against a dimension 1 below and above it
RatioDrives ==
    {Vec(a, b, c, 1730, 4700) :
        a \in {2000, Hz(FREQUENCY_MAX)}, b \in Hz(FREQUENCY_MIN)..Hz(FREQUENCY_MAX), c \in {3000}}

InitRatio ==
    /\ \E drive \in RatioDrives : ship = [Flying(Base0).s EXCEPT !.r_drive = drive]
    /\ audio = NewAudio
    /\ tick = NullTick
    /\ frame = [n |-> 0, phase |-> "input", dt |-> 0, pitches |-> 0,
                universe |-> FirstUniverse, generated |-> 1]
    /\ cb = IdleCb

\* the simulation runs detect_harmonic_relationships on the drive
RatioCheck ==
    /\ ~tick.checked
    /\ tick' = [tick EXCEPT !.kind = "flight", !.checked = TRUE,
                            !.detected = detect_harmonic_relationships(ship)]
    /\ UNCHANGED <<ship, audio, frame, cb>>

NextRatio == RatioCheck \/ CbDetect

SpecRatio == InitRatio /\ [][NextRatio]_vars

\* the entries of a report for the dimensions of p
EntriesFor(list, p) == {k \in 1..Len(list) : {list[k].i, list[k].j} = {p[1], p[2]}}

\* table entry k matches the ratio, larger over smaller, of the pair p
Within(drive, p, k) ==
    LET hi == Max2(drive[p[1]], drive[p[2]])
        lo == Min2(drive[p[1]], drive[p[2]])
    IN  50 * Abs(1000 * hi - HARMONIC_RATIOS[k].ratio * lo) < HARMONIC_RATIOS[k].ratio * lo

\* name is that of the first table entry that matches the pair p
FirstMatch(drive, p, name) ==
    \E k \in 1..Len(HARMONIC_RATIOS) :
        /\ HARMONIC_RATIOS[k].name = name
        /\ Within(drive, p, k)
        /\ \A m \in 1..(k - 1) : ~Within(drive, p, m)

HarmonicNames == {HARMONIC_RATIOS[k].name : k \in 1..Len(HARMONIC_RATIOS)}

\* C37: on the same drive frequencies within [200, 800] Hz, the audio
\* thread's detect_harmonic_pairs and the simulation's
\* detect_harmonic_relationships report the same pairs of dimensions under
\* the same names, each pair at most once and under the name of the first
\* table entry that matches
C37_SameHarmonics ==
    (Checked /\ Heard /\ cb.detect = ship.r_drive) =>
        \A p \in DimPairs :
            /\ Cardinality(EntriesFor(tick.detected, p)) <= 1
            /\ Cardinality(EntriesFor(cb.pairs, p)) <= 1
            /\ \A name \in HarmonicNames :
                  /\ Reported(tick.detected, name, p[1], p[2]) <=> Reported(cb.pairs, name, p[1], p[2])
                  /\ Reported(cb.pairs, name, p[1], p[2]) <=> FirstMatch(cb.detect, p, name)

\* both have run on a drive whose dimensions 1 and 2 are 800 Hz and 400 Hz:
\* the audio thread reports the octave as (2, 1), the simulation as (1, 2)
C37_Witness ==
    /\ Checked /\ Heard /\ cb.detect = ship.r_drive
    /\ ship.r_drive[0] = Hz(800) /\ ship.r_drive[1] = Hz(400)
    /\ \E k \in 1..Len(cb.pairs) : cb.pairs[k] = [name |-> "octave", i |-> 1, j |-> 0]
    /\ \E k \in 1..Len(tick.detected) : tick.detected[k] = [name |-> "octave", i |-> 0, j |-> 1]

\* a ratio of 1.64 is within 2% of the major sixth and of the golden ratio,
\* and both report the major sixth, which comes first in the table
OverlapResolved ==
    /\ Checked /\ Heard /\ cb.detect = ship.r_drive
    /\ ship.r_drive[0] = 2000 /\ ship.r_drive[1] = 3280
    /\ Within(ship.r_drive, <<0, 1>>, 6) /\ Within(ship.r_drive, <<0, 1>>, 9)
    /\ Reported(cb.pairs, "major_sixth", 0, 1) /\ Reported(tick.detected, "major_sixth", 0, 1)

\* both have run and neither reports the pair of dimensions 1 and 2
NoHarmonic ==
    /\ Checked /\ Heard /\ cb.detect = ship.r_drive
    /\ ~ReportedAny(cb.pairs, 0, 1) /\ ~ReportedAny(tick.detected, 0, 1)

\* ---- the pitch thread (ship.py 416-425, 708-717) ----

\* sing mode never switched on; sing mode on and the thread at its loop test
ThreadScenarios == {[Flying(Base0) EXCEPT !.s.tuning_mode = TRUE, !.s.selected_dim = 1], Singing}

ThreadInputs == {Key("none", {}), Key("h", {})}

ThreadInput == InputStep(ThreadInputs, MaxThreadFrames)

\* detect_pitch returns: as often as MaxThreadPitches while sing mode is on,
\* and always once sing mode is off, when it is the last round
ThreadDetect ==
    /\ ship.pitch_thread = "detect"
    /\ frame.pitches < MaxThreadPitches \/ ~ship.sing_active
    /\ \E pitch \in SingPitches : ship' = PitchLoop(ship, pitch)
    /\ frame' = [frame EXCEPT !.pitches = IF ship.sing_active THEN @ + 1 ELSE @]
    /\ UNCHANGED <<audio, tick, cb>>

InitThread == InitWith(ThreadScenarios)

NextThread == ThreadInput \/ SimTick \/ PitchCheck \/ ThreadDetect

\* the thread is scheduled: its loop test and the return of detect_pitch
\* happen when they can
SpecThread ==
    InitThread /\ [][NextThread]_vars /\ WF_vars(PitchCheck) /\ WF_vars(ThreadDetect)

\* the pitch threads that are alive
AliveThreads(s) ==
    (IF s.pitch_thread \in {"check", "detect"} THEN 1 ELSE 0)
        + Cardinality({k \in 1..Len(s.replaced_threads) : s.replaced_threads[k] \in {"check", "detect"}})

\* outside the steps of the frame loop the drive is written by a round of a
\* live thread only, and the loop test with sing mode off is the end of the
\* thread
LastRound ==
    /\ (frame'.phase = frame.phase /\ ship'.r_drive # ship.r_drive)
          => ship.pitch_thread = "detect" /\ ship'.pitch_thread = "check"
    /\ (ship.pitch_thread = "check" /\ ~ship.sing_active /\ ship'.pitch_thread # "check")
          => ship'.pitch_thread = "dead"

\* C38: whatever the H presses, at most one pitch thread is alive; with sing
\* mode off the thread ends, unless sing mode is switched on again, at the
\* loop test that follows the round it is in, and writes the drive in no
\* round after that
C38_OneThread ==
    /\ [](AliveThreads(ship) <= 1)
    /\ [][LastRound]_vars
    /\ (~ship.sing_active ~> (ship.sing_active \/ ship.pitch_thread \in {"none", "dead"}))

\* sing mode was switched off during a round; the round wrote the drive and
\* the thread ended at its test
C38_Witness ==
    /\ ~ship.sing_mode /\ ship.pitch_thread = "dead"
    /\ ship.r_drive[ship.selected_dim] = Hz(523)
    /\ ship.speak_log # <<>>
    /\ ~MayForward([ship EXCEPT !.simulation_time = ship.speak_log[Len(ship.speak_log)].time],
                   "Tuned to hummed pitch 523.00 Hz.")
    /\ frame.pitches = 0

\* sing mode off and on again within a round: the thread that was running
\* goes on, and no second one was started
ThreadKept ==
    /\ ship.sing_mode /\ ship.pitch_thread = "detect" /\ ship.replaced_threads = <<>>
    /\ frame.n >= 2

\* the thread had ended and H started a new one
ThreadReplaced ==
    /\ ship.replaced_threads = <<"dead">> /\ ship.pitch_thread \in {"check", "detect"}
====
